------------------------ MODULE MCDocumentProcessing ------------------------
(* The instance of DocumentProcessing for TLC.  A behaviour is about one   *)
(* upload, a packet with its parts or another: no statement touches the    *)
(* rows of two uploads.                                                    *)
EXTENDS DocumentProcessing

VARIABLE upload

OneUploadInit == Init /\ upload \in Roots

OneUploadNext ==
  Next /\ UNCHANGED upload /\ \A d \in Roots \ {upload} : status'[d] = "none"

OneUploadSpec == OneUploadInit /\ [][OneUploadNext]_<<vars, upload>> /\ Fairness
=============================================================================
