------------------------------ MODULE MCDeploy -------------------------------
(* An app of two images in the configurations that differ: rolling and     *)
(* replacing, two replicas, and the three kinds of history.                *)
EXTENDS Deploy, TLC

Config(s, h, n, r) ==
    [strategy |-> s, history |-> h, count |-> n, replicas |-> r]

MCConfigs ==
    {Config("replace", "local", 2, 1), Config("rolling", "registry", 2, 1),
     Config("rolling", "none", 1, 2)}

ImageSymmetry == Permutations(Images)
=============================================================================
