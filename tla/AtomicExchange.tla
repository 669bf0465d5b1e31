--------------------------- MODULE AtomicExchange ---------------------------
(***************************************************************************)
(* What swaps promise, whatever the chains and the protocol.  In each, two *)
(* strangers put up a leg for each other.  The leg "first" is the one      *)
(* whose payment publishes the secret; the leg "second" is paid with that  *)
(* secret.  The party that pays first gets the other leg, and a leg that   *)
(* is not paid returns to its owner.                                       *)
(***************************************************************************)
CONSTANT Exchange
VARIABLES first, second

Leg == {"none", "locked", "paid", "back"}

Init == /\ first = [s \in Exchange |-> "none"]
        /\ second = [s \in Exchange |-> "none"]

\* How the legs of one exchange move.
Goes(s, a, b, c, d) ==
    first[s] = a /\ second[s] = b /\ first'[s] = c /\ second'[s] = d

\* Either party puts its leg up.
Lock(s) == \/ \E b \in Leg : Goes(s, "none", b, "locked", b)
           \/ \E a \in Leg : Goes(s, a, "none", a, "locked")

\* The secret is published, for a leg that is there, and then used.
PayFirst(s) == Goes(s, "locked", "locked", "paid", "locked")
PaySecond(s) == Goes(s, "paid", "locked", "paid", "paid")

\* A leg goes back to its owner: the second only while the first is unpaid.
ReturnFirst(s) == \E b \in Leg : Goes(s, "locked", b, "back", b)
ReturnSecond(s) == \E a \in Leg \ {"paid"} : Goes(s, a, "locked", a, "back")

Rest(s) == \E a, b \in Leg : Goes(s, a, b, a, b)

\* Exchanges are independent: each takes a step of its own, or rests.
Step(s) == \/ Lock(s) \/ PayFirst(s) \/ PaySecond(s)
           \/ ReturnFirst(s) \/ ReturnSecond(s) \/ Rest(s)
Next == \A s \in Exchange : Step(s)

Spec == Init /\ [][Next]_<<first, second>>

\* What is left of the promise when nobody bounds the delays: the party that
\* paid first may come too late for the second leg, and nothing else.
MissSecond(s) == Goes(s, "paid", "locked", "paid", "back")
OrderedNext == \A s \in Exchange : Step(s) \/ MissSecond(s)

OrderedSpec == Init /\ [][OrderedNext]_<<first, second>>

\* A leg put up first is paid or returned, and once it is paid so is the other.
Settled == \A s \in Exchange : /\ first[s] = "locked" ~> first[s] # "locked"
                               /\ first[s] = "paid" ~> second[s] = "paid"
LiveSpec == Spec /\ Settled

=============================================================================
