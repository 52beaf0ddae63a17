---------------------------- MODULE MCMigration ----------------------------
(* Values for the constants of Migration.                                  *)
EXTENDS Migration, TLC

(* An .nvram file is a path: the directory and the name.                   *)
MCNVRAMFiles == {<<".", "vm">>, <<".", "spare">>, <<"old", "vm">>}
MCBaseName(f) == f[2]

Defaults == [source |-> "directory", backend |-> "auto", engine |-> "auto",
             firmware |-> "auto", arch |-> "auto", skipManifest |-> FALSE,
             keepNVRAM |-> FALSE]

(* Every target asked of every backend.                                    *)
TargetConfigs ==
  {[Defaults EXCEPT !.backend = b, !.engine = e, !.firmware = f, !.arch = a] :
     b \in {"auto", "qemu-img", "virt-v2v"}, e \in Engines \union {"auto"},
     f \in Firmwares \union {"auto"}, a \in Arches \union {"auto"}}

(* Every source read with every backend.                                   *)
SourceConfigs ==
  {[Defaults EXCEPT !.source = s, !.backend = b, !.skipManifest = k] :
     s \in {"ova", "directory"}, b \in {"auto", "qemu-img", "virt-v2v"}, k \in BOOLEAN}

MCConfigs == TargetConfigs \union SourceConfigs
               \union {[Defaults EXCEPT !.keepNVRAM = TRUE]}
=============================================================================
