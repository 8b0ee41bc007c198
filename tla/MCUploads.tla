------------------------------ MODULE MCUploads ------------------------------
(* Small instances of Uploads: one form, every upload for the first field. *)
EXTENDS Uploads, TLC

CONSTANTS f1, k1

MCFormOf == [x \in Uploads \cup Submissions |-> f1]
MCFieldOf == [u \in Uploads |-> k1]
=============================================================================
