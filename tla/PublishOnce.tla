------------------------------ MODULE PublishOnce ------------------------------
(***************************************************************************)
(* What a publish promises, whoever asks for it and whatever fails: a      *)
(* bundle appears at a destination in one step, whole, at a destination    *)
(* that had none, after its intent was recorded, and under a grant that    *)
(* covers the destination and that no other publish has used or can still  *)
(* use.  A bundle is never changed or removed.                             *)
(***************************************************************************)
CONSTANTS Call, Dest, Part

VARIABLES published,  \* the bundle at each destination
          recorded,   \* the calls whose intent the audit log accepted
          usable,     \* the grants that can still authorize a publish
          spent       \* the grants that have

Init == /\ published = [d \in Dest |-> [there |-> FALSE]]
        /\ recorded = {}
        /\ usable = {}
        /\ spent = {}

\* A grant is minted (and others pruned), or grants lapse, are consumed or are lost with
\* the process.
Grant(g) == g \notin spent /\ usable' \subseteq usable \cup {g} /\ UNCHANGED <<published, recorded, spent>>
Lapse == usable' \subseteq usable /\ UNCHANGED <<published, recorded, spent>>

Record(c) == recorded' = recorded \cup {c} /\ UNCHANGED <<published, usable, spent>>

Publish(c, d, g) ==
    /\ c \in recorded
    /\ g \in usable /\ d \in g.scope
    /\ ~published[d].there
    /\ published'[d].there /\ published'[d].by = c
    /\ published'[d].parts = Part /\ published'[d].clean
    /\ \A e \in Dest \ {d} : published'[e] = published[e]
    /\ DOMAIN published' = Dest
    /\ usable' = usable \ {g}
    /\ spent' = spent \cup {g}
    /\ UNCHANGED recorded

Next == \/ Lapse
        \/ \E g \in usable' \ usable : Grant(g)
        \/ \E c \in recorded' \ recorded : Record(c)
        \/ \E c \in Call, d \in Dest : \E g \in usable : Publish(c, d, g)

Spec == Init /\ [][Next]_<<published, recorded, usable, spent>>

=============================================================================
