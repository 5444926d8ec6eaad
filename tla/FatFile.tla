------------------------------- MODULE FatFile -------------------------------
(* Reading a file of the FAT12 partition (src/fw/fat12.rs): the chain is   *)
(* walked link by link, a flash read each, to the cluster of the offset    *)
(* and on through the clusters read.  Every chain of a small volume is an  *)
(* initial state, those with cycles, bad links and early ends among them;  *)
(* the host may change a link while the badge reads.                       *)
(*                                                                         *)
(* Abstractions: a byte of the file is named by its cluster and its place  *)
(* in it.  The geometry is valid (FatParams::validate), the directory      *)
(* entry found.                                                            *)
EXTENDS Naturals, Sequences

CONSTANTS
    LastCluster,   \* data clusters are 2 .. LastCluster
    ClusterBytes,  \* bytes of one
    MaxSize,       \* bound: bytes of a file
    MaxLinks       \* bound: links the host changes during a read

ASSUME FatAssumption ==
    LastCluster \in Nat \ {0, 1} /\ ClusterBytes \in Nat \ {0} /\ {MaxSize, MaxLinks} \subseteq Nat

Clusters == 2 .. LastCluster

(* What next_cluster makes of a FAT entry: a cluster, the end of the chain *)
(* (0xFF8 and up, or free), or a link never to be followed.                *)
End == 0
Bad == 1

VARIABLES
    fat,       \* [Clusters -> Clusters \cup {End, Bad}]
    file,      \* [first, size]
    ask,       \* [offset, len]: what is to be read
    reader,    \* [at, cluster, skip]: where read_file is
    bytes,     \* what it has read
    links      \* bound: links changed

fatVars == <<fat, file, ask, reader, bytes, links>>

ToRead ==
    LET left == IF file.size > ask.offset THEN file.size - ask.offset ELSE 0
    IN  IF ask.len < left THEN ask.len ELSE left

ReadNothing ==
    /\ reader = [at |-> "start", cluster |-> End, skip |-> 0]
    /\ bytes = << >> /\ links = 0

FatInit ==
    /\ fat \in [Clusters -> Clusters \cup {End, Bad}]
    /\ file \in [first : {End} \cup Clusters, size : 0 .. MaxSize]
    /\ ask \in [offset : 0 .. MaxSize, len : 1 .. MaxSize]
    /\ ReadNothing

-----------------------------------------------------------------------------
(* Clusters 0 and 1 are refused as the first; nothing to read is no error. *)
Open ==
    /\ reader.at = "start"
    /\ reader' = IF ToRead = 0 THEN [reader EXCEPT !.at = "done"]
                 ELSE IF file.first < 2 THEN [reader EXCEPT !.at = "corrupt"]
                 ELSE [at |-> "skipping", cluster |-> file.first, skip |-> ask.offset]
    /\ UNCHANGED <<fat, file, ask, bytes, links>>

(* next_cluster, whose end of the chain is an error to read_file. *)
Follow(place, skip) ==
    reader' = IF fat[reader.cluster] \in Clusters
              THEN [at |-> place, cluster |-> fat[reader.cluster], skip |-> skip]
              ELSE [reader EXCEPT !.at = "corrupt"]

(* The clusters before the offset. *)
SkipCluster ==
    /\ reader.at = "skipping"
    /\ IF reader.skip >= ClusterBytes
       THEN Follow("skipping", reader.skip - ClusterBytes)
       ELSE reader' = [reader EXCEPT !.at = "reading"]
    /\ UNCHANGED <<fat, file, ask, bytes, links>>

(* The part of this cluster that is wanted, and on while some is. *)
ReadCluster ==
    /\ reader.at = "reading"
    /\ LET missing == ToRead - Len(bytes)
           here    == ClusterBytes - reader.skip
           chunk   == IF missing < here THEN missing ELSE here
       IN  /\ bytes' = bytes \o [i \in 1 .. chunk |-> <<reader.cluster, reader.skip + i>>]
           /\ reader' = [reader EXCEPT !.at = IF chunk < missing THEN "linking" ELSE "done"]
    /\ UNCHANGED <<fat, file, ask, links>>

LinkCluster ==
    /\ reader.at = "linking"
    /\ Follow("reading", 0)
    /\ UNCHANGED <<fat, file, ask, bytes, links>>

(* The host writes the FAT between two flash reads. *)
HostLinks ==
    /\ reader.at \in {"skipping", "reading", "linking"} /\ links < MaxLinks
    /\ \E c \in Clusters, l \in Clusters \cup {End, Bad} : fat' = [fat EXCEPT ![c] = l]
    /\ links' = links + 1
    /\ UNCHANGED <<file, ask, reader, bytes>>

FatNext == Open \/ SkipCluster \/ ReadCluster \/ LinkCluster \/ HostLinks
FatSpec == FatInit /\ [][FatNext]_fatVars

-----------------------------------------------------------------------------
(* The n-th cluster of the file, if the chain gets that far. *)
NthCluster ==
    LET nth[n \in 0 .. 2 * MaxSize] ==
            IF n = 0 THEN (IF file.first \in Clusters THEN file.first ELSE Bad)
            ELSE IF nth[n - 1] \in Clusters THEN fat[nth[n - 1]] ELSE Bad
    IN  nth

(* read_file returns the bytes of the file from the offset on, as many as  *)
(* were asked for and are there, or Corrupt where the chain does not reach *)
(* that far, whatever the chain looks like (fat12.rs:458-470); and it ends *)
(* after as many clusters as the bytes need, though the chain may be a     *)
(* cycle and though the host relinks it meanwhile.                         *)
FileIsRead ==
    /\ Len(bytes) <= ToRead
    /\ reader.skip <= ask.offset
    /\ (links = 0 /\ reader.at \in {"done", "corrupt"}) =>
          LET last    == (ask.offset + ToRead - 1) \div ClusterBytes
              reaches == ToRead = 0 \/ \A n \in 0 .. last : NthCluster[n] \in Clusters
          IN  /\ (reader.at = "done") <=> reaches
              /\ reaches =>
                    bytes = [i \in 1 .. ToRead |->
                               LET p == ask.offset + i - 1
                               IN  <<NthCluster[p \div ClusterBytes], (p % ClusterBytes) + 1>>]
    /\ (links > 0 /\ reader.at = "done") => Len(bytes) = ToRead
=============================================================================
