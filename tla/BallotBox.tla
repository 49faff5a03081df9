----------------------------- MODULE BallotBox ------------------------------
(***************************************************************************)
(* What the poll promises, without queues, stores or handlers. A viewer    *)
(* casts at most one ballot on a question; a ballot, once cast, stays; the *)
(* audit journal holds only ballots that were cast; a ballot is either     *)
(* written to the journal or spoiled (known to be missing from it), once   *)
(* and for all; and a viewer gets a receipt only for a ballot that counts. *)
(***************************************************************************)
CONSTANTS
    Ballot      \* possible ballots, records with a key: who votes on what

VARIABLES
    ballots,    \* the ballots cast
    receipts,   \* ballots whose viewer was told "accepted"
    audit,      \* ballots written to the journal
    spoiled     \* ballots that will never be written to it

vars == <<ballots, receipts, audit, spoiled>>

Init == ballots = {} /\ receipts = {} /\ audit = {} /\ spoiled = {}

\* A viewer without a ballot on the question casts one; it may be spoiled at
\* once.
Cast(b) ==
    /\ \A other \in ballots : other.key # b.key
    /\ ballots' = ballots \cup {b}
    /\ spoiled' \in {spoiled, spoiled \cup {b}}
    /\ UNCHANGED <<receipts, audit>>

Open == ballots \ (audit \cup spoiled)

\* Some open ballots are written, others spoiled, and some viewers get their
\* receipt, all in one step.
Settle(written, dropped, told) ==
    /\ written \cup dropped \subseteq Open
    /\ written \cap dropped = {}
    /\ told \subseteq ballots
    /\ audit' = audit \cup written
    /\ spoiled' = spoiled \cup dropped
    /\ receipts' = receipts \cup told
    /\ UNCHANGED ballots

Next ==
    \/ \E b \in Ballot : Cast(b)
    \/ \E written, dropped \in SUBSET Open, told \in SUBSET ballots :
          Settle(written, dropped, told)

Spec == Init /\ [][Next]_vars
=============================================================================
