----------------------------- MODULE TraceCodec -----------------------------
(***************************************************************************)
(* Saving and loading traces (src/trace.cpp): the binary format byte by    *)
(* byte, the JSON format as the tree the parser builds.                    *)
(*                                                                         *)
(* A saved trace may be damaged before it is loaded: bytes or values       *)
(* change, and a write that fails, or a process that dies in it, leaves a  *)
(* beginning of the file.  Byte is the base: a u16 takes one digit, a u32  *)
(* two and a u64 four, so that counts, lengths and enumerations keep their *)
(* widths and their order, and converting a number to a narrower type      *)
(* loses something.  The text of JSON is abstracted to what can be told    *)
(* apart after parsing.                                                    *)
(***************************************************************************)
EXTENDS TraceRules, FiniteSets, SequencesExt, FiniteSetsExt

CONSTANTS Byte,          \* values of a byte
          Magic, Version, \* kTraceMagic, kTraceVersion
          ControlChars,  \* bytes below 0x20 that json_escape() writes as \u00XX
          MaxName,       \* limit on the length of a name that is loaded
          MaxReserve,    \* entries the memory can hold
          MaxFile,       \* limit on the size of a file that is loaded
          Originals,     \* the traces saved
          OtherBytes, OtherValues, \* what damage puts in place of a byte, a value
          MaxDamage      \* bound on the damage

VARIABLES original,      \* the trace that was saved last
          format,        \* "binary" or "json"
          file,          \* what is on disk
          damage,        \* how often a file was damaged
          intact,        \* (history) the file is as it was saved
          loaded         \* what load_trace_*() answered: [error, trace]

cvars == <<original, format, file, damage, intact, loaded>>

U16 == 1
U32 == 2
U64 == 4
Wide(digits) == Byte^digits

(* The fields of an entry, in the order of the binary format, with their   *)
(* widths.                                                                 *)
Fields == <<"seq", "step", "op", "id", "size", "alignment", "domain", "worker", "tag",
            "has_status", "status_success", "error_code">>
Width(f) == IF f \in {"seq", "step", "id", "size", "alignment"} THEN U64 ELSE U32
WidthOf(fields) == FoldSeq(LAMBDA f, sum : sum + Width(f), 0, fields)
OffsetOf == [f \in ToSet(Fields) |->
               WidthOf(SubSeq(Fields, 1, SelectInSeq(Fields, LAMBDA g : g = f) - 1))]
EntryLength == WidthOf(Fields)

OpName == <<"Allocate", "Free", "Reallocate", "Trim", "Reset", "Barrier", "PhaseMarker">>
LastDomain == 5
MaxErrorCode == Wide(U16) - 1
CodeOf(op) == CHOOSE c \in 0..(Len(OpName) - 1) : OpName[c + 1] = op

(* A u16 tells the operations apart.                                       *)
Assumptions ==
  /\ {Byte, Version, MaxName, MaxReserve, MaxFile, MaxDamage} \subseteq Nat
  /\ Byte > Len(OpName) /\ OtherBytes \subseteq 0..(Byte - 1)
  /\ \A t \in Originals : WellFormed(t.entries)

(* An entry with its fields as numbers, and back: an enumeration has the   *)
(* width of a u16, and what is above it is lost before any comparison with *)
(* the range.                                                              *)
Bit(b) == IF b THEN 1 ELSE 0
Numbers(e) ==
  [e EXCEPT !.op = CodeOf(@), !.has_status = Bit(@), !.status_success = Bit(@)]
Least(a, b) == IF a < b THEN a ELSE b
AsEnum(n) == n % Wide(U16)
Typed(n) ==
  [n EXCEPT !.op = IF AsEnum(@) < Len(OpName) THEN OpName[AsEnum(@) + 1] ELSE "Unknown",
            !.domain = AsEnum(@),
            !.has_status = @ # 0, !.status_success = @ # 0,
            !.error_code = Least(@, MaxErrorCode)]

Fault(code) == [error |-> code]

(* validate_trace(), at the end of both decoders.                          *)
Validated(t) ==
  IF WellFormed(t.entries) THEN [error |-> "ok", trace |-> t] ELSE Fault("not valid")

-----------------------------------------------------------------------------
(* trace_to_binary() and trace_from_binary().                              *)

Digits(n, width) == [i \in 1..width |-> (n \div Wide(i - 1)) % Byte]

EntryToBinary(e) ==
  FlattenSeq([k \in 1..Len(Fields) |-> Digits(Numbers(e)[Fields[k]], Width(Fields[k]))])

ToBinary(t) ==
  Digits(Magic, U32) \o Digits(Version, U32) \o Digits(t.seed, U64)
    \o Digits(Len(t.name), U32) \o t.name \o Digits(Len(t.entries), U32)
    \o FlattenSeq([i \in 1..Len(t.entries) |-> EntryToBinary(t.entries[i])])

(* rd_u32() and rd_u64(): the number after the first p bytes.              *)
ReadU32(bytes, p) == bytes[p + 1] + Byte * bytes[p + 2]
ReadU64(bytes, p) == ReadU32(bytes, p) + Wide(U32) * ReadU32(bytes, p + U32)
Number(bytes, p, width) == IF width = U32 THEN ReadU32(bytes, p) ELSE ReadU64(bytes, p)

EntryFromBinary(bytes, p) ==
  Typed([f \in ToSet(Fields) |-> Number(bytes, p + OffsetOf[f], Width(f))])

(* Where the name, the count and the entries are, if the file reaches.     *)
NameAt == 3 * U32 + U64
NameLength(bytes) == ReadU32(bytes, NameAt - U32)
CountAt(bytes) == NameAt + NameLength(bytes)
Count(bytes) == ReadU32(bytes, CountAt(bytes))
EntryAt(bytes, i) == CountAt(bytes) + U32 + (i - 1) * EntryLength

(* Mutant of WholeFile: bytes after the last entry are not looked at.      *)
WholeFileOrMore(bytes) == EntryAt(bytes, Count(bytes) + 1) <= Len(bytes)

(* Every entry announced is there, and nothing comes after the last one.   *)
WholeFile(bytes) == EntryAt(bytes, Count(bytes) + 1) = Len(bytes)

(* Each read stops at the end of the file, and so never passes it.         *)
FromBinary(bytes) ==
  LET size == Len(bytes)
      entries == [i \in 1..Count(bytes) |-> EntryFromBinary(bytes, EntryAt(bytes, i))]
  IN IF size < U32 \/ ReadU32(bytes, 0) # Magic THEN Fault("trace_malformed")
     ELSE IF size < 2 * U32 THEN Fault("trace_malformed")
     ELSE IF ReadU32(bytes, U32) # Version THEN Fault("trace_rejected")
     ELSE IF size < NameAt \/ size < CountAt(bytes) \/ size < CountAt(bytes) + U32
     THEN Fault("trace_malformed")
     ELSE IF NameLength(bytes) > MaxName THEN Fault("trace_malformed")
     ELSE IF Count(bytes) > MaxReserve THEN Fault("bad_alloc")
     ELSE IF ~ WholeFile(bytes) THEN Fault("trace_malformed")
     ELSE IF \E e \in Range(entries) : e.op = "Unknown" \/ e.domain > LastDomain
     THEN Fault("trace_malformed")
     ELSE Validated([seed |-> ReadU64(bytes, 2 * U32),
                     name |-> SubSeq(bytes, NameAt + 1, CountAt(bytes)),
                     entries |-> entries])

-----------------------------------------------------------------------------
(* trace_to_json() and trace_from_json().  Values of other types, which    *)
(* are accepted nowhere, are left out.                                     *)

Uint(n) == [type |-> "uint", val |-> n]
Bool(b) == [type |-> "bool", val |-> b]
Str(s) == [type |-> "string", val |-> s]
Missing == [type |-> "missing"]

Status == {"status_success", "error_code"}

(* The status is written only if there is one.                             *)
EntryToJson(e) ==
  [f \in ToSet(Fields) |->
     IF f \in Status /\ ~ e.has_status THEN Missing
     ELSE IF f \in {"has_status", "status_success"} THEN Bool(e[f])
     ELSE Uint(Numbers(e)[f])]

ToJson(t) ==
  [version |-> Uint(Version), seed |-> Uint(t.seed), name |-> Str(t.name),
   entries |-> [i \in 1..Len(t.entries) |-> EntryToJson(t.entries[i])]]

(* static_cast<int>(), and from there to an unsigned type.                 *)
AsUnsigned(n) == n % Wide(U32)
FitsInt(n) == AsUnsigned(n) < Wide(U32) \div 2

(* The fields an entry must have, the enumerations among them; the status  *)
(* is looked at only if there is one.                                      *)
Required == ToSet(Fields) \ {"has_status", "status_success", "error_code"}
InRange(v, last) == FitsInt(v.val) /\ AsUnsigned(v.val) <= last
HasStatus(j) == j.has_status.type = "bool" /\ j.has_status.val

(* Mutant of EntryAcceptable: any domain passes.                           *)
EntryAcceptableAnywhere(j) ==
  /\ \A f \in Required : j[f].type = "uint"
  /\ InRange(j.op, Len(OpName) - 1)
  /\ j.has_status.type \in {"bool", "missing"}
  /\ HasStatus(j) =>
       /\ j.status_success.type \in {"bool", "missing"}
       /\ \/ j.error_code.type = "missing"
          \/ j.error_code.type = "uint" /\ j.error_code.val <= MaxErrorCode

EntryAcceptable(j) ==
  /\ \A f \in Required : j[f].type = "uint"
  /\ InRange(j.op, Len(OpName) - 1) /\ InRange(j.domain, LastDomain)
  /\ j.has_status.type \in {"bool", "missing"}
  /\ HasStatus(j) =>
       /\ j.status_success.type \in {"bool", "missing"}
       /\ \/ j.error_code.type = "missing"
          \/ j.error_code.type = "uint" /\ j.error_code.val <= MaxErrorCode

(* What is missing keeps the default of TraceEntry.                        *)
EntryFromJson(j) ==
  [f \in ToSet(Fields) |->
     IF f = "op" THEN OpName[AsUnsigned(j.op.val) + 1]
     ELSE IF f = "has_status" THEN HasStatus(j)
     ELSE IF f = "status_success" THEN HasStatus(j) /\ j[f].type = "bool" /\ j[f].val
     ELSE IF f = "error_code" THEN IF HasStatus(j) /\ j[f].type = "uint" THEN j[f].val ELSE 0
     ELSE IF Width(f) = U32 THEN AsUnsigned(j[f].val) ELSE j[f].val]

(* A document that is cut off ends inside its braces; a string with an     *)
(* escape the parser does not know ends it too.                            *)
Parses(j) ==
  /\ j # Missing
  /\ j.name.type = "string" => \A i \in DOMAIN j.name.val : j.name.val[i] \notin ControlChars

FromJson(j) ==
  IF ~ Parses(j) \/ j.version.type # "uint" THEN Fault("trace_malformed")
  ELSE IF j.version.val # Version THEN Fault("trace_rejected")
  ELSE IF j.seed.type \notin {"uint", "missing"} \/ j.name.type \notin {"string", "missing"}
  THEN Fault("trace_malformed")
  ELSE IF \E i \in DOMAIN j.entries : ~ EntryAcceptable(j.entries[i])
  THEN Fault("trace_malformed")
  ELSE Validated([seed |-> IF j.seed = Missing THEN 0 ELSE j.seed.val,
                  name |-> IF j.name = Missing THEN <<>> ELSE j.name.val,
                  entries |-> [i \in DOMAIN j.entries |-> EntryFromJson(j.entries[i])]])

-----------------------------------------------------------------------------
Written(t, as) == IF as = "binary" THEN ToBinary(t) ELSE ToJson(t)
NotLoaded == Fault("not loaded")

Init ==
  /\ original \in Originals /\ format \in {"binary", "json"}
  /\ file = Written(original, format)
  /\ damage = 0 /\ intact = TRUE /\ loaded = NotLoaded

Damaged(as) ==
  /\ loaded = NotLoaded /\ damage < MaxDamage
  /\ file' = as
  /\ damage' = damage + 1 /\ intact' = FALSE
  /\ UNCHANGED <<original, format, loaded>>

(* Damage to the binary file: a byte changes, the end is missing, bytes    *)
(* are appended.                                                           *)
ChangeByte(i, b) == format = "binary" /\ file[i] # b /\ Damaged([file EXCEPT ![i] = b])
CutBytes(n) == format = "binary" /\ Damaged(SubSeq(file, 1, n))
AppendByte(b) == format = "binary" /\ Damaged(Append(file, b))

(* Damage to the document: a value changes, the end is missing.            *)
ChangeHeader(k, v) ==
  format = "json" /\ file # Missing /\ file[k] # v /\ Damaged([file EXCEPT ![k] = v])
ChangeValue(i, f, v) ==
  /\ format = "json" /\ file # Missing /\ file.entries[i][f] # v
  /\ Damaged([file EXCEPT !.entries[i][f] = v])
CutDocument == format = "json" /\ file # Missing /\ Damaged(Missing)

(* load_trace_binary(), load_trace_json().                                 *)
Load ==
  /\ loaded = NotLoaded
  /\ loaded' = IF format = "json" THEN FromJson(file)
               ELSE IF Len(file) > MaxFile THEN Fault("trace_malformed")
               ELSE FromBinary(file)
  /\ UNCHANGED <<original, format, file, damage, intact>>

(* What was loaded is saved again, in either format.                       *)
SaveAs(as) ==
  /\ loaded.error = "ok"
  /\ original' = loaded.trace /\ format' = as
  /\ file' = Written(loaded.trace, as)
  /\ intact' = TRUE /\ loaded' = NotLoaded
  /\ UNCHANGED damage

Next ==
  \/ format = "binary" /\ \E i \in 1..Len(file), b \in OtherBytes : ChangeByte(i, b)
  \/ format = "binary" /\ \E n \in 0..(Len(file) - 1) : CutBytes(n)
  \/ \E b \in OtherBytes : AppendByte(b)
  \/ \E k \in {"version", "seed", "name"}, v \in OtherValues : ChangeHeader(k, v)
  \/ /\ format = "json" /\ file # Missing
     /\ \E i \in DOMAIN file.entries, f \in ToSet(Fields), v \in OtherValues :
          ChangeValue(i, f, v)
  \/ CutDocument
  \/ Load
  \/ \E as \in {"binary", "json"} : SaveAs(as)

Spec == Init /\ [][Next]_cvars

-----------------------------------------------------------------------------
(* Properties.                                                             *)

Loaded(as) == format = as /\ loaded.error = "ok"

(* The digits the decoder keeps no trace of: of the status fields it makes *)
(* Booleans and a bounded number, and of op and domain it takes the lower  *)
(* half.                                                                   *)
LostAt(bytes) ==
  UNION {(EntryAt(bytes, i) + OffsetOf["has_status"] + 1 .. EntryAt(bytes, i + 1))
           \cup {EntryAt(bytes, i) + OffsetOf[f] + d : f \in {"op", "domain"},
                                                      d \in (U16 + 1)..U32} :
           i \in 1..Count(bytes)}

(* "Truncated data [...] are rejected" (docs/TRACES.md), and nothing of a  *)
(* file is passed over: whatever the damage to lengths, counts and values, *)
(* a binary file that is accepted is the one that the accepted trace is    *)
(* written as, except for the digits of the recorded status and the upper  *)
(* halves of op and domain (NeverCoerced is about those), and that trace   *)
(* is well formed.  An undamaged file gives back the trace saved.          *)
BinaryExact ==
  /\ Loaded("binary") =>
       LET written == ToBinary(loaded.trace)
       IN /\ Len(written) = Len(file)
          /\ \A i \in DOMAIN file \ LostAt(file) : written[i] = file[i]
          /\ WellFormed(loaded.trace.entries)
  /\ format = "binary" /\ intact /\ loaded # NotLoaded =>
       loaded = [error |-> "ok", trace |-> original]

(* A recorded status that says there is none is not written to JSON.       *)
Forgetful(e) == IF e.has_status THEN e ELSE [e EXCEPT !.status_success = FALSE, !.error_code = 0]
Speakable(t) == \A i \in DOMAIN t.name : t.name[i] \notin ControlChars

(* A JSON document that is accepted has every field that is required, and  *)
(* the trace is well formed and equal to it in every field of 64 bits and, *)
(* modulo the width of an int, in the others.  An undamaged one gives back *)
(* the trace saved, whatever file that was loaded from before, if its name *)
(* has no control characters.                                              *)
JsonExact ==
  /\ Loaded("json") =>
       /\ WellFormed(loaded.trace.entries)
       /\ Len(loaded.trace.entries) = Len(file.entries)
       /\ \A i \in DOMAIN file.entries, f \in Required :
            LET n == Numbers(loaded.trace.entries[i])[f]
            IN /\ file.entries[i][f].type = "uint" /\ n < Wide(Width(f))
               /\ file.entries[i][f].val % Wide(Width(f)) = n
               /\ f = "domain" => n <= LastDomain
  /\ format = "json" /\ intact /\ loaded # NotLoaded =>
       IF Speakable(original)
       THEN /\ loaded.error = "ok"
            /\ loaded.trace = [original EXCEPT !.entries =
                                 [i \in DOMAIN @ |-> Forgetful(@[i])]]
       ELSE loaded.error = "trace_malformed"

(* What a file that was loaded has for a field of its i-th entry.          *)
Stored(i, f) ==
  IF format = "json" THEN file.entries[i][f].val
  ELSE Number(file, EntryAt(file, i) + OffsetOf[f], Width(f))

(* "Malformed enum values [...] are rejected.  Data is never silently      *)
(* coerced" (docs/TRACES.md): the enumerations of an accepted trace are    *)
(* the numbers the file has, in either format.                             *)
NeverCoerced ==
  loaded.error = "ok" =>
    \A i \in DOMAIN loaded.trace.entries, f \in {"op", "domain"} :
      Numbers(loaded.trace.entries[i])[f] = Stored(i, f)
=============================================================================
