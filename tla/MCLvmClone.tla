----------------------------- MODULE MCLvmClone -----------------------------
(* Two clones of one source, to one target or to two, with two failures.  Of the     *)
(* options, the combinations that lead to different steps: none, a dry run, UUIDs      *)
(* alone, files with and without new UUIDs, and the steps in the chroot.              *)
EXTENDS LvmClone, TLC

CONSTANTS c1, v1

Options == {{}, {"dry_run"}, {"uuid"}, {"uuid"} \cup Files, {"fstab", "verify"},
            {"uuid", "fstab", "hostname", "initramfs", "grub"}, {"initramfs"}}

(* The targets are interchangeable: the first clone's is fixed. *)
MCInit ==
  /\ wants \in [Clones -> Options]
  /\ original \in {[f \in Files |-> "old"],
                   [f \in Files |-> IF f = "fstab" THEN "old" ELSE "none"]}
  /\ Init
  /\ targetOf[c1] = v1

MCSpec == MCInit /\ [][Next]_vars

=============================================================================
