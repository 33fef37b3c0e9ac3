------------------------------ MODULE MCOpenAs ------------------------------
(***************************************************************************)
(* Four MIME types: a detour and a cycle to begin with, a shortcut and a   *)
(* replacement registered while another goroutine searches.                *)
(***************************************************************************)
EXTENDS OpenAs

MCMimes == {"html", "far", "mid", "plain"}
T(from, to, id) == [from |-> from, to |-> to, id |-> id]
MCDetour == {T("html", "far", 1), T("far", "mid", 1), T("mid", "plain", 1)}
MCShortcuts == {T("html", "mid", 1), T("mid", "plain", 2)}
MCTransformers == MCDetour \cup MCShortcuts \cup {T("mid", "html", 1)}
MCInitial == {MCDetour, {T("mid", "plain", 1), T("mid", "html", 1)}}
MCTextMedia == {"html", "plain"}
MCKnown == {"cp1251", "utf-16"}
R(media, charset, stored, declared) ==
  [media |-> media, charset |-> charset, stored |-> stored, declared |-> declared]
MCResources == { R("html", "", "cp1251", "cp1251"), R("html", "utf-16", "utf-16", "cp1251"),
                 R("plain", "utf-8", "utf-8", "") }
MCTargets == { [to |-> "plain", out |-> ""], [to |-> "plain", out |-> "cp1251"],
               [to |-> "plain", out |-> "nonsense"] }
\* A document kept in UTF-8 whose head still names the charset it came from.
MCStale == { R("html", "utf-8", "utf-8", "cp1251"), R("html", "cp1251", "cp1251", "utf-8") }
=============================================================================
