-------------------------------- MODULE MCAgent --------------------------------
(* Small instances of Agent for TLC.                                       *)
EXTENDS Agent

CONSTANT Key

AllConfigs ==
    [provider : {"gcp", "aws", "oci", "azure"}, taintKey : {Key, NoKey}, releaseOnExit : BOOLEAN]

\* Azure is not supported yet.
SupportedConfigs == {c \in AllConfigs : c.provider # "azure"}

=============================================================================
