----------------------------- MODULE MCSudodev -----------------------------
(* Instances of Sudodev for TLC.  short is the serial number of a FAT      *)
(* volume (1234-5678), long a UUID that contains it                        *)
(* (abcd1234-5678-...); other is a third one, and where Hex leaves it out  *)
(* it has a letter that isUUID() refuses.                                  *)
EXTENDS Sudodev

CONSTANTS c, d, short, long, other

Exact     == {<<u, u>> : u \in UUID}
Substring == Exact \cup {<<short, long>>}
=============================================================================
