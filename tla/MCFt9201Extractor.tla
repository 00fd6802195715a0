------------------------- MODULE MCFt9201Extractor -------------------------
(* Units of two bytes, an image of two or three units, a table of one byte *)
(* at the offset 1 behind one vector byte.  Byte 2 is the vector, 3 the    *)
(* table.                                                                  *)
EXTENDS Ft9201FirmwareTool

MCTable   == <<3>>
MCVectors == [k \in {0} |-> 2]
MCBinary  == UNION {[1..n -> {0, 1, 2, 3}] : n \in 1..7}
MCAttempts == <<"cabextract", "7z", "bsdtar">>
MCPayload == { <<1, 1>>, <<1, 2>>, <<1>> }
============================================================================
