------------------------------ MODULE TrialBoot ------------------------------
(* What an update of the executable promises: the image that is kept works, *)
(* and another one takes its place only after a trial in which it worked.   *)
CONSTANTS Contents, Working
VARIABLES kept, trial

Init == kept \in Working /\ trial \in Contents

\* Another image, a part of one, or none is tried next.
Install == trial' \in Contents /\ UNCHANGED kept

\* The image on trial has worked.
Confirm == trial \in Working /\ kept' = trial /\ trial' \in Contents

Next == Install \/ Confirm

Spec == Init /\ [][Next]_<<kept, trial>>
=============================================================================
