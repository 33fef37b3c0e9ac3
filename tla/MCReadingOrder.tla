--------------------------- MODULE MCReadingOrder ---------------------------
(* Small reading orders: empty, one chapter, and chapters around an empty one. *)
EXTENDS ReadingOrder

MCResources == {"blank", "one", "two"}
MCByte      == {"a", "b", "c", "-", "+"}
MCText      == [r \in MCResources |->
                 CASE r = "blank" -> <<>> [] r = "one" -> <<"a">> [] r = "two" -> <<"b", "c">>]
MCOrders    == { <<>>, <<"one">>, <<"blank">>, <<"two", "one">>,
                 <<"one", "blank", "two">>, <<"blank", "blank", "one", "blank">> }
MCDelimiters == { <<>>, <<"-">>, <<"-", "+">> }
=============================================================================
