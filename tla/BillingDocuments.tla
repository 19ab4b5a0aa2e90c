---------------------------- MODULE BillingDocuments ----------------------------
(***************************************************************************)
(* How the closed periods of a meter come into the table (Billing), and    *)
(* how the image of each is made from it (Screenshot).  Billing has a      *)
(* store statement by statement; Screenshot has it in one step and the     *)
(* minutes of a capture around it.  A behaviour is one of either: `part`   *)
(* says which.                                                             *)
(***************************************************************************)
EXTENDS Billing

CONSTANTS
    Caller, PNG_ROWS, RING, MaxStamp, Paired, MaxId, MaxTroubles, MaxMishaps

ASSUME DocumentsAssumption ==
    /\ {PNG_ROWS, RING, MaxStamp, MaxId, MaxTroubles, MaxMishaps} \subseteq Nat
    /\ "nobody" \notin Caller

VARIABLES
    part,
    meter, stored, lock, job, task, browser, port, stray, pictures, deleted, troubles, mishaps

S == INSTANCE Screenshot WITH rows <- stored

image_vars == <<meter, stored, lock, job, task, browser, port, stray, pictures, deleted,
                troubles, mishaps>>
all_vars   == <<part, vars, image_vars>>

\* Where images are made, the meter is that of Screenshot.
DocumentsInit ==
    /\ part \in {"read", "image"} /\ Init /\ S!Init
    /\ part = "image" => dates = <<>> /\ profile /\ slot = 0

Reads  == part = "read" /\ Next /\ UNCHANGED <<part, image_vars>>
Images == part = "image" /\ S!Next /\ UNCHANGED <<part, vars>>

DocumentsNext == Reads \/ Images

\* Billing's fairness, where the meter is read.
ReadingIsFair ==
    /\ \A r \in Reader :
         WF_vars(part = "read" /\ (ReadBuffer(r) \/ ReadFails(r) \/ FindStored(r) \/ Commit(r)))
    /\ \A r \in Background :
         /\ WF_vars(part = "read" /\ billing_change_check(r))
         /\ SF_vars(part = "read" /\ TakeLine(r)) /\ SF_vars(part = "read" /\ ReadBuffer(r))
         /\ SF_vars(part = "read" /\ FindStored(r)) /\ SF_vars(part = "read" /\ Commit(r))

\* A capture goes on, by its deadlines if by nothing else, the turn is taken when it
\* comes round, and an image that is missing is asked for again.
ImagesAreFair ==
    /\ WF_image_vars(part = "image" /\ S!GoesOn)
    /\ WF_image_vars(part = "image" /\ \E c \in Caller : S!write_png_capture(c))

DocumentsSpec == DocumentsInit /\ [][DocumentsNext]_all_vars /\ ReadingIsFair /\ ImagesAreFair

-----------------------------------------------------------------------------
(* Captures, one turn after another, leave no browser, task or token.      *)
NothingIsLeftBehind == S!NothingIsLeftBehind

(* An image shows the period it is named for and those before it, however  *)
(* the table changes between the choice of its rows and the picture.       *)
PictureShowsItsPeriods == S!PictureShowsItsPeriods

(* Every stored period has its image in the end, in spite of what a        *)
(* killed process left running.                                            *)
EveryPeriodIsPictured == S!EveryPeriodIsPictured
=============================================================================
