---------------------------- MODULE MCKModLoader ----------------------------
(* Machines with up to two display controllers and a driver that devmatch  *)
(* and pciconf both ask for.                                               *)
EXTENDS KModLoader

MCKld == {"i915kms", "radeonkms", "amdgpu", "nvidia-drm", "nvidia", "if_em"}

MCDepends == [k \in Kld |-> IF k = "nvidia-drm" THEN {"nvidia"} ELSE {}]

Card(v) == [class |-> "0x0300", vendor |-> v, radeon |-> FALSE]
Old(v) == [Card(v) EXCEPT !.radeon = TRUE]

MCGpus == { <<>>, <<Card("other"), Card("0x1002")>>, <<Old("0x1002"), Card(None), Old("0x1002")>>,
            <<Card("0x8086"), Card("0x10de")>>, <<[Card("0x10de") EXCEPT !.class = "0x0302"]>> }

MCMatches == { <<>>, <<[kld |-> "if_em", ko |-> TRUE], [kld |-> Blank, ko |-> FALSE]>>,
               <<[kld |-> "if_em", ko |-> FALSE], [kld |-> "nvidia-drm", ko |-> FALSE],
                 [kld |-> "if_em", ko |-> TRUE]>> }

MCMachines == [gpus : MCGpus, matches : MCMatches]
=============================================================================
