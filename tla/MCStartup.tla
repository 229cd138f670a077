------------------------------ MODULE MCStartup ------------------------------
(***************************************************************************)
(* Partitions of one to five block groups, with clusters of 512 bytes to   *)
(* 256 KiB in sectors of 512 bytes to 4 KiB, whose last group is empty,    *)
(* short, or a few blocks around the limits; FATs as large as the          *)
(* partition needs, aligned or not.                                        *)
(***************************************************************************)
EXTENDS Startup

\* A partition of this many whole groups and some more blocks.
Boot(bytes, per_cluster, fats, groups, more, skew) ==
  LET block   == bytes * per_cluster
      group   == IF 8 * block > 65528 THEN 65528 ELSE 8 * block
      blocks  == groups * group + more
      sectors == blocks * per_cluster
      fat     == ceildiv(blocks + 2, block \div 4) * per_cluster
  IN  [ bytes_per_sector    |-> bytes,
        sectors_per_cluster |-> per_cluster,
        sectors_before_fat  |-> 8 * per_cluster + skew,
        sectors_per_fat     |-> fat,
        fat_count           |-> fats,
        sector_count        |-> IF sectors < 65536 THEN sectors ELSE 0,
        total_sectors2      |-> IF sectors < 65536 THEN 0 ELSE sectors ]

MCBootSectors ==
  { Boot(512, 2, fats, groups, more, skew) :
      fats \in {1, 2}, groups \in 1..4, more \in {0, 1, 2, 131, 200}, skew \in {0, 1} }
  \cup { Boot(512, per_cluster, 2, groups, more, 0) :
      per_cluster \in {1, 4, 8}, groups \in {1, 2}, more \in {0, 300} }
  \cup { Boot(b[1], b[2], 2, 1, more, 0) :
      b \in {<<1024, 1>>, <<4096, 16>>, <<4096, 32>>, <<4096, 64>>}, more \in {0, 300} }
=============================================================================
