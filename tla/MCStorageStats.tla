--------------------------- MODULE MCStorageStats ---------------------------
(* Model checking of StorageStats: "nvme_long" stands for a name of 64 or more *)
(* characters, "nvme_cut" for its first 63.                                    *)
EXTENDS StorageStats

MCNames == {"sda", "sdb", "nvme_cut", "nvme_long"}
MCCut == [n \in MCNames |-> IF n = "nvme_long" THEN "nvme_cut" ELSE n]
=============================================================================
