----------------------------- MODULE BookShelf -----------------------------
(***************************************************************************)
(* What the storage owner promises about the books on the card: each name  *)
(* shows one complete content or none; an upload is offered, then put in   *)
(* one step; only the name under replacement can be lost by it, and no     *)
(* other book ever changes.  UploadJournal implements this.                *)
(***************************************************************************)
CONSTANTS Names, Contents, NoFile

VARIABLES shelf, offer

NoOffer == [name |-> NoFile, content |-> NoFile]

Init ==
    /\ shelf \in [Names -> Contents \cup {NoFile}]
    /\ offer = NoOffer

\* A replacement of n by c is under way; c = NoFile when only its undoing is.
Offer(n, c) ==
    /\ offer = NoOffer
    /\ offer' = [name |-> n, content |-> c]
    /\ UNCHANGED shelf

Withdraw ==
    /\ offer' = NoOffer
    /\ UNCHANGED shelf

Put ==
    /\ offer.content # NoFile
    /\ shelf' = [shelf EXCEPT ![offer.name] = offer.content]
    /\ offer' = NoOffer

Remove(n) ==
    /\ offer = NoOffer
    /\ shelf' = [shelf EXCEPT ![n] = NoFile]
    /\ UNCHANGED offer

\* The interrupted replacement leaves its target without a visible copy.
Lose ==
    /\ offer # NoOffer
    /\ shelf' = [shelf EXCEPT ![offer.name] = NoFile]
    /\ offer' = NoOffer

Next ==
    \/ \E n \in Names, c \in Contents \cup {NoFile} : Offer(n, c)
    \/ Withdraw
    \/ Put
    \/ \E n \in Names : Remove(n)
    \/ Lose

Spec == Init /\ [][Next]_<<shelf, offer>>
============================================================================
