--------------------------- MODULE MCCertificates ---------------------------
(* TLC instance of Certificates. *)
EXTENDS Certificates
=============================================================================
