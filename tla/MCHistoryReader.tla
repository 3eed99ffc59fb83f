--------------------------- MODULE MCHistoryReader ---------------------------
(* HistoryReader in four settings, of which an initial state picks one: a    *)
(* walk over migrations by one call; concurrent calls through the slot on a  *)
(* log that is cosigned again, and on one that grows meanwhile; one call for *)
(* non-revocation on a log that grows and is cosigned.                       *)
EXTENDS HistoryReader, TLC

CONSTANTS FirstCall

VARIABLES setting

MCInit ==
  /\ ReaderInit
  /\ setting \in {"walk", "cache", "growth", "revocation"}
  /\ setting = "cache" <=> config.entityKey = Nothing
  /\ setting # "walk" => config.verifyMigration = Nothing
  /\ setting # "growth" => config.consistency = "tiles"

MCNext ==
  /\ ReaderNext
  /\ setting \in {"walk", "revocation"} => \A c \in Calls \ {FirstCall} : call'[c] = NoCall
  /\ setting = "walk" => published' = published /\ size' = 1
  /\ setting = "cache" => size' = 1
  /\ setting = "growth" => now' = 0 /\ revoked' = revoked
  /\ setting \in {"cache", "growth"} => \A c \in Calls : call'[c].kind # "direct"
  /\ setting # "walk" => \A l \in Logs : opening'[l].type # "MIGRATION"
  /\ UNCHANGED setting

MCSpec == MCInit /\ [][MCNext]_<<readerVars, setting>>

Symmetry == Permutations(ReaderKeys) \cup Permutations(Logs \ {ThisLog})
=============================================================================
