------------------------------- MODULE Sessions -------------------------------
(***************************************************************************)
(* What the refresh-token store promises, without its rows, timestamps and *)
(* sessions.  A login opens a family with one token.  A rotation begins    *)
(* while the family has a live token and may end by adding one.  Tokens    *)
(* die, by revocation or because time passes, and never come back to life. *)
(***************************************************************************)
CONSTANTS Tokens, Families, Workers, NULL

VARIABLES
  state,   \* of each token: unissued, live or dead
  family,  \* the family of each issued token
  rotating \* the family each worker is rotating a token of, if any

vars == <<state, family, rotating>>

TypeOK ==
  /\ state \in [Tokens -> {"unissued", "live", "dead"}]
  /\ family \in [Tokens -> Families \cup {NULL}]
  /\ rotating \in [Workers -> Families \cup {NULL}]

-----------------------------------------------------------------------------
Init ==
  /\ state = [t \in Tokens |-> "unissued"]
  /\ family = [t \in Tokens |-> NULL]
  /\ rotating = [w \in Workers |-> NULL]

LiveFamily(f) == \E t \in Tokens : family[t] = f /\ state[t] = "live"

Killed(S) == [t \in Tokens |->
                IF t \in S /\ state[t] = "live" THEN "dead" ELSE state[t]]

(* n joins f, live unless it has expired already; the tokens of S die.     *)
Add(n, f, S) ==
  /\ state[n] = "unissued"
  /\ \E new \in {"live", "dead"} : state' = [Killed(S) EXCEPT ![n] = new]
  /\ family' = [family EXCEPT ![n] = f]

Open(n, f) ==
  /\ \A t \in Tokens : family[t] # f
  /\ Add(n, f, {})
  /\ UNCHANGED rotating

Begin(w, f) ==
  /\ LiveFamily(f)
  /\ rotating' = [rotating EXCEPT ![w] = f]
  /\ UNCHANGED <<state, family>>

(* A rotation adds a token to its own family and kills tokens of no other. *)
Rotate(w, n) ==
  /\ rotating[w] # NULL
  /\ \E S \in SUBSET {t \in Tokens : family[t] = rotating[w]} :
       Add(n, rotating[w], S)
  /\ rotating' = [rotating EXCEPT ![w] = NULL]

(* The requests of W end without an effect. *)
Abandon(W) ==
  /\ rotating' = [w \in Workers |-> IF w \in W THEN NULL ELSE rotating[w]]
  /\ UNCHANGED <<state, family>>

Kill(S) ==
  /\ state' = Killed(S)
  /\ UNCHANGED <<family, rotating>>

Next ==
  \/ \E n \in Tokens, f \in Families : Open(n, f)
  \/ \E w \in Workers, f \in Families : Begin(w, f)
  \/ \E w \in Workers, n \in Tokens : Rotate(w, n)
  \/ \E W \in SUBSET Workers : Abandon(W)
  \/ \E S \in SUBSET Tokens : Kill(S)

Spec == Init /\ [][Next]_vars
-----------------------------------------------------------------------------
(* A session that was opened and has neither a live token nor a rotation   *)
(* under way has ended.                                                    *)
Ended(f) ==
  /\ \E t \in Tokens : family[t] = f
  /\ ~LiveFamily(f)
  /\ \A w \in Workers : rotating[w] # f

(* A session that has ended stays ended.                                   *)
EndIsFinal == [][\A f \in Families : Ended(f) => Ended(f)']_vars
=============================================================================
