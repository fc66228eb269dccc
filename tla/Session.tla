-------------------------------- MODULE Session --------------------------------
(***************************************************************************)
(* What sign-in promises, whatever the page, the wallet and the network    *)
(* do: a session belongs to the account whose signature started it, each   *)
(* one starts with a signature of its own, and it only ever ends.          *)
(***************************************************************************)
CONSTANTS
  Accounts,
  Returning,  \* accounts that may have a session to begin with
  Nobody

VARIABLES
  session,    \* the account of the session, or Nobody
  signed      \* the accounts that have signed

vars == <<session, signed>>

Init ==
  /\ session \in Returning \cup {Nobody}
  /\ signed = {session} \ {Nobody}

\* An account signs; that starts a session of its own or nothing.
Sign(a) ==
  /\ signed' = signed \cup {a}
  /\ session' \in {a, session}

\* Signed out, or run out.
End == session' = Nobody /\ UNCHANGED signed

Next == End \/ \E a \in Accounts : Sign(a)

Spec == Init /\ [][Next]_vars
===============================================================================
