---------------------------- MODULE MCHistoryStore -----------------------------
(***************************************************************************)
(* Instances of HistoryStore for TLC.                                      *)
(***************************************************************************)
EXTENDS HistoryStore

CONSTANTS text, fileList, image, link, app, cli

\* two payloads with fingerprints of their own
MCPair == {text, image}

\* a copied file list and the same text share a fingerprint
MCMany == {text, fileList, image, link}

MCHashOf == [pl \in Payloads |-> IF pl = fileList THEN text ELSE pl]

\* the tightest limits (a pin_limit below 1 is raised to 1) and looser ones
MCConfigs ==
    {[maxItems |-> 1, pinLimit |-> 0, accepts |-> Payloads],
     [maxItems |-> 2, pinLimit |-> 1, accepts |-> Payloads]}

\* one process that changes its mind about limits and about what it records
MCConfigsOne ==
    {[maxItems |-> 1, pinLimit |-> 2, accepts |-> Payloads],
     [maxItems |-> 2, pinLimit |-> 1, accepts |-> Payloads \ {link}]}
================================================================================
