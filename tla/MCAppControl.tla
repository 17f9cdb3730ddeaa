---------------------------- MODULE MCAppControl ----------------------------
(* An operator who sends the commands of the configuration at any time.     *)
(* The control task starts a job, and ends it, within CtrlWindow.           *)
EXTENDS AppControl

=============================================================================
