---------------------------- MODULE MCLifecycle ----------------------------
(***************************************************************************)
(* A small instance of Lifecycle: every status code the classification     *)
(* names, an unknown one (408) and none at all, and delays that saturate.  *)
(***************************************************************************)
EXTENDS Lifecycle

MCCodes == {0, 401, 402, 403, 405, 406, 408, 409, 411, 440, 500, 501, 503, 515, 516}

=============================================================================
