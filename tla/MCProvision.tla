----------------------------- MODULE MCProvision -----------------------------
(***************************************************************************)
(* Instances of Provision small enough for TLC.  An address is the sequence *)
(* of its parts.                                                           *)
(***************************************************************************)
EXTENDS Provision, TLC

\* Two clients, one of which repeats its request under another user_name.
OwnNames == {[name |-> "n1", id |-> "i1"], [name |-> "n2", id |-> "i1"],
             [name |-> "n3", id |-> "i2"]}
OneRequest == {[name |-> "n1", id |-> "i1"]}
TwoRequests == OneRequest \cup {[name |-> "n2", id |-> "i2"]}

MCGroup == <<"g">>
TwoAddresses == <<<<"10", "1">>, <<"10", "2">>>>
ThreeAddresses == <<<<"10", "1">>, <<"10", "2">>, <<"11", "1">>>>
LongThenShort == <<<<"10", "1", "7">>, <<"10", "2">>>>

\* Threads are alike.
MCSymmetry == Permutations(Threads)

\* A bound on what follows when two threads have been on one socket: it goes on up
\* to an answer, a second address marked, or a user stored in a wrong table.
MixBound == shared => /\ answers = {} /\ Cardinality(marks) <= 1
                      /\ \A b \in Tables \ {"users"} : users[b] = <<>>
=============================================================================
