------------------------------ MODULE ChmReads ------------------------------
(***************************************************************************)
(* What a CHM container promises to the goroutines that read it: a read is *)
(* one atomic lookup in an immutable file.  It is answered with the bytes  *)
(* of the requested slice or refused; nothing one reader does shows in     *)
(* another's answer.  The only thing readers share is whether the          *)
(* decompression parameters are usable, and that is settled once.          *)
(***************************************************************************)
CONSTANTS
  Readers,
  Requests,       \* what a goroutine may ask for
  Compressed(_),  \* the request needs the decompression parameters
  InStream(_),    \* the request lies inside its stream
  Trivial(_),     \* the request is for no bytes at all
  Content(_),     \* the bytes the file holds for a request
  Nothing         \* no request

VARIABLES
  phase,          \* idle, reading, answered or refused
  request,
  answer,
  params          \* unknown, good or bad

avars == <<phase, request, answer, params>>

Init ==
  /\ phase = [r \in Readers |-> "idle"]
  /\ request = [r \in Readers |-> Nothing]
  /\ answer = [r \in Readers |-> <<>>]
  /\ params = "unknown"

\* A goroutine asks.  A request over a limit is turned down at once, one for
\* no bytes may be answered at once.
Ask(r) ==
  /\ phase[r] = "idle"
  /\ \E q \in Requests :
       /\ request' = [request EXCEPT ![r] = q]
       /\ \/ /\ \E p \in {"reading", "refused"} : phase' = [phase EXCEPT ![r] = p]
             /\ UNCHANGED answer
          \/ /\ Trivial(q)
             /\ phase' = [phase EXCEPT ![r] = "answered"]
             /\ answer' = [answer EXCEPT ![r] = Content(q)]
  /\ UNCHANGED params

\* The first reader to need the parameters settles them for everybody.
Settle(r) ==
  /\ phase[r] = "reading" /\ Compressed(request[r])
  /\ params = "unknown"
  /\ \/ params' = "good" /\ UNCHANGED phase
     \/ params' = "bad" /\ phase' = [phase EXCEPT ![r] = "refused"]
  /\ UNCHANGED <<request, answer>>

Answer(r) ==
  /\ phase[r] = "reading" /\ InStream(request[r])
  /\ Compressed(request[r]) => params = "good"
  /\ phase' = [phase EXCEPT ![r] = "answered"]
  /\ answer' = [answer EXCEPT ![r] = Content(request[r])]
  /\ UNCHANGED <<request, params>>

\* The request is invalid, the parameters are bad, or the file failed.
Refuse(r) ==
  /\ phase[r] = "reading"
  /\ Compressed(request[r]) => params # "unknown"
  /\ phase' = [phase EXCEPT ![r] = "refused"]
  /\ UNCHANGED <<request, answer, params>>

Forget(r) ==
  /\ phase[r] \in {"answered", "refused"}
  /\ phase' = [phase EXCEPT ![r] = "idle"]
  /\ request' = [request EXCEPT ![r] = Nothing]
  /\ answer' = [answer EXCEPT ![r] = <<>>]
  /\ UNCHANGED params

Finish(r) == Settle(r) \/ Answer(r) \/ Refuse(r)

Next == \E r \in Readers : Ask(r) \/ Finish(r) \/ Forget(r)

Spec == Init /\ [][Next]_avars /\ \A r \in Readers : WF_avars(Finish(r))
=============================================================================
