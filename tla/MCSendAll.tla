------------------------------ MODULE MCSendAll ------------------------------
(* SendAll with messages of up to eight bytes and pointers of three. *)
EXTENDS SendAll
UpToEight == 0..8
=============================================================================
