------------------------ MODULE MCFortigateFirewall ------------------------
(* Instances of FortigateFirewall for TLC. *)
EXTENDS FortigateFirewall

CONSTANTS v1, v2, two, three

\* Every -fgt claim was uploaded by hand under the name the machine mounts ...
AllUploaded == {"fgt"} \X Versions

\* ... or none was, and the operator's clones are all there is.
NothingUploaded == {}
=============================================================================
