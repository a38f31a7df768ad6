------------------------------- MODULE MCLStr -------------------------------
(* Two bytes, and a text of up to two characters: "n" is a character of the *)
(* LabVIEW encoding, "m" is what the bytes of a byte order mark read as in   *)
(* it, and "x" is not in it and becomes two bytes of a character reference.  *)
EXTENDS LStr, TLC

MCByte == {"n", "bom"}
MCChar == {"n", "m", "x"}
MCEncoded == "n" :> <<"n">> @@ "m" :> <<"bom">> @@ "x" :> <<"n", "n">>
MCDecoded == "n" :> "n" @@ "bom" :> "m"
=============================================================================
