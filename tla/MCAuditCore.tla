---------------------------- MODULE MCAuditCore ----------------------------
(* A log of 9 words for entries of 3 to 9 words.                           *)
EXTENDS AuditCore

MCSizes == {0, 2, 6}
=============================================================================
