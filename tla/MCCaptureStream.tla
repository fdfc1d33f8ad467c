--------------------------- MODULE MCCaptureStream ---------------------------
(* An instance of CaptureStream for TLC.  Who is there in a behaviour is    *)
(* one of two crowds: two listeners, or one of them and somebody who        *)
(* records.  The recorder is fed before the listeners are, so that nothing  *)
(* of a listener reaches it.                                                *)
EXTENDS CaptureStream

CONSTANTS l1, l2, c1
VARIABLE crowd

Crowds == {{l1, l2}, {l1, c1}}
MCSizes == <<1, 2>>

MCInit == Init /\ crowd \in Crowds
MCNext ==
    /\ \/ Supervisor \/ Stop \/ CodecFails
       \/ \E l \in Listeners \cap crowd : Connection(l)
       \/ \E c \in Callers \cap crowd : RecordRequest(c)
    /\ UNCHANGED crowd
mcVars == <<vars, crowd>>
MCSpec == MCInit /\ [][MCNext]_mcVars /\ WF_mcVars(Supervisor /\ UNCHANGED crowd)
=============================================================================
