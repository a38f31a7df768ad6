-------------------------------- MODULE LStr --------------------------------
(***************************************************************************)
(* A LabVIEW string (types/string.rs): a block with a size field of type   *)
(* i32 and the bytes behind it.  The manager resizes the block, the crate  *)
(* writes the size and the bytes, and every reader trusts the size.        *)
(*                                                                         *)
(* A Rust reference to the unsized LStr carries the length of its data,    *)
(* which as_ref and as_ref_mut read from the word behind the master        *)
(* pointer.  Nothing in the crate writes that word: it is an input, meta.  *)
(*                                                                         *)
(* The width of the size field is a parameter, so that small ones can wrap.*)
(***************************************************************************)
EXTENDS Integers, Sequences

Ext == INSTANCE SequencesExt

CONSTANTS
  I32Max,      \* the size field holds -(I32Max + 1) .. I32Max
  MaxBytes,    \* the manager reports mFullErr beyond this many bytes
  Meta,        \* what the word behind the master pointer can say
  Byte, Uninit,
  Char,        \* the characters of Rust strings
  MaxText,     \* the longest Rust string that is set
  Encoded,     \* the bytes of a character in the LabVIEW encoding
  Decoded,     \* the character a byte stands for in the LabVIEW encoding
  BOM,         \* the bytes of a byte order mark, taken as one
  DecodedUtf8  \* the character the byte stands for in UTF-8

ASSUME StringAssumption ==
  /\ I32Max \in Nat \ {0} /\ MaxBytes \in Nat /\ MaxText \in Nat
  /\ Meta \subseteq Nat
  /\ Uninit \notin Byte /\ BOM \in Byte

ASSUME EncodingAssumption ==
  /\ Encoded \in [Char -> Seq(Byte)]
  /\ Decoded \in [Byte -> Char] /\ DecodedUtf8 \in [Byte -> Char]

VARIABLES
  block,     \* "null" or "string"
  size,      \* the size field
  content,   \* the bytes allocated behind it, a sequence over Byte and Uninit
  last       \* the last call, its value, whether meta covered it, its result

vars == <<block, size, content, last>>

Storage == Len(content)

NoCall == [op |-> "none", text |-> <<>>, value |-> <<>>, covered |-> TRUE, result |-> "Ok"]

Init ==
  /\ block = "null"
  /\ size = 0
  /\ content = <<>>
  /\ last = NoCall

-----------------------------------------------------------------------------
(* input_length as i32. *)
AsI32(n) == ((n + I32Max + 1) % (2 * (I32Max + 1))) - (I32Max + 1)

(* usize::try_from(self.size).unwrap_or(0) *)
slice_len(n) == IF n >= 0 THEN n ELSE 0

as_slice == SubSeq(content, 1, slice_len(size))

(* DSSetHandleSize to n bytes of data. *)
Resized(n) == [i \in 1..n |-> IF i <= Storage THEN content[i] ELSE Uninit]

(* Faulty variant: the loop runs over the old bytes of the block. *)
ZippedOld(value, meta) ==
  LET c == Resized(Len(value)) IN
  [i \in 1..Len(c) |-> IF i <= meta /\ i <= Storage THEN value[i] ELSE c[i]]

(* value.iter().zip(l_str.data.iter_mut()), after the resize. *)
Zipped(value, meta) ==
  LET c == Resized(Len(value)) IN
  [i \in 1..Len(c) |-> IF i <= meta THEN value[i] ELSE c[i]]

ReturnsOk(op, text, value, meta) ==
  last' = [op |-> op, text |-> text, value |-> value, covered |-> Len(value) <= meta,
           result |-> "Ok"]
ReturnsErr(op) == last' = [NoCall EXCEPT !.op = op, !.result = "Err"]

(* Faulty variant: the size field is written before the block is resized. *)
StoreSizeFirst(op, text, value, meta) ==
  /\ block' = "string"
  /\ size' = AsI32(Len(value))
  /\ \/ /\ Len(value) <= MaxBytes
        /\ content' = Zipped(value, meta)
        /\ ReturnsOk(op, text, value, meta)
     \/ ReturnsErr(op) /\ UNCHANGED content

(* set on a handle of the manager: resize, or out through ? with mFullErr; then *)
(* the size and the bytes.                                                      *)
Store(op, text, value, meta) ==
  \/ /\ Len(value) <= MaxBytes
     /\ block' = "string"
     /\ size' = AsI32(Len(value))
     /\ content' = Zipped(value, meta)
     /\ ReturnsOk(op, text, value, meta)
  \/ /\ ReturnsErr(op)
     /\ UNCHANGED <<block, size, content>>

(* LStrHandle::set; the manager refuses to resize a null handle. *)
Set(op, text, value, meta) ==
  \/ block = "string" /\ Store(op, text, value, meta)
  \/ /\ block = "null"
     /\ ReturnsErr(op)
     /\ UNCHANGED <<block, size, content>>

Encode(text) == Ext!FlattenSeq([i \in 1..Len(text) |-> Encoded[text[i]]])

(* Encoding::decode: a byte order mark is removed and chooses the encoding. *)
Decode(bytes) ==
  IF bytes # <<>> /\ bytes[1] = BOM
  THEN [i \in 1..Len(bytes) - 1 |-> DecodedUtf8[bytes[i + 1]]]
  ELSE [i \in 1..Len(bytes) |-> Decoded[bytes[i]]]

set_str(text, meta) == Set("set_str", text, Encode(text), meta)

(* from_data and empty_string, on a fresh block of no bytes that becomes the *)
(* string of the terminal, or is forgotten on Err.                           *)
from_data(value, meta) ==
  /\ block = "null"
  /\ Store("from_data", <<>>, value, meta)

(* A byte written through as_mut_slice. *)
Write(i, b) ==
  /\ block = "string"
  /\ i \in 1..slice_len(size)
  /\ content' = [content EXCEPT ![i] = b]
  /\ last' = [NoCall EXCEPT !.op = "write"]
  /\ UNCHANGED <<block, size>>

(* LabVIEW passes a null handle for the empty string, or a string with its size. *)
LabVIEW(value) ==
  /\ Len(value) <= MaxBytes /\ Len(value) <= I32Max
  /\ block' \in IF value = <<>> THEN {"null", "string"} ELSE {"string"}
  /\ content' = value
  /\ size' = Len(value)
  /\ last' = [NoCall EXCEPT !.op = "LabVIEW"]

Values == Ext!BoundedSeq(Byte, MaxBytes + 1)
Texts == Ext!BoundedSeq(Char, MaxText)

Next ==
  \/ \E value \in Values, meta \in Meta :
       Set("set", <<>>, value, meta) \/ from_data(value, meta)
  \/ \E text \in Texts, meta \in Meta : set_str(text, meta)
  \/ \E i \in 1..MaxBytes, b \in Byte : Write(i, b)
  \/ \E value \in Values : LabVIEW(value)

Spec == Init /\ [][Next]_vars

-----------------------------------------------------------------------------
(* as_slice builds its slice from the size field alone: after any sequence *)
(* of calls, failed resizes and wrapped sizes included, it stays inside    *)
(* the bytes that are allocated.                                           *)
SliceInBounds == slice_len(size) <= Storage

Fits == Len(last.value) <= I32Max

(* "This function will resize the handle based on the size of the input    *)
(* value": whatever the string was before, an Ok leaves exactly the value, *)
(* provided that the size field can count it and meta covers it.           *)
OkStores ==
  last.op \in {"set", "set_str", "from_data"} /\ last.result = "Ok"
    /\ Fits /\ last.covered => as_slice = last.value

(* A failed set or set_str, on a full heap or a null handle, leaves the old *)
(* string whole: no new size over old bytes.                               *)
ErrKeepsString ==
  [][last'.result = "Err" => UNCHANGED <<block, size, content>>]_vars

(* A Rust string whose characters are single bytes of the LabVIEW encoding *)
(* comes back as it was, unless it begins like a byte order mark.           *)
Encodable(c) == \E b \in Byte : Encoded[c] = <<b>> /\ Decoded[b] = c
TextReadsBack ==
  last.op = "set_str" /\ last.result = "Ok" /\ Fits /\ last.covered
    /\ (\A i \in 1..Len(last.text) : Encodable(last.text[i]))
    /\ (last.value # <<>> => last.value[1] # BOM)
    => as_slice \in Seq(Byte) /\ Decode(as_slice) = last.text
=============================================================================
