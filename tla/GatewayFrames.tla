---------------------------- MODULE GatewayFrames ----------------------------
(***************************************************************************)
(* One answer of a GW1000 gateway: fields of a tag and as many bytes as    *)
(* the tag says.  gw1000.py reads the frame from the connection and goes   *)
(* over the tags (request, frame_payload, parse_values) before the driver  *)
(* it vendors, _vendor/gw1000.py, decodes them in a loop of its own, that  *)
(* stops at what it does not know and forgives what is cut off.            *)
(*                                                                         *)
(* Units are left out.  A value is a sequence: one integer, the bytes of   *)
(* an integer of four bytes (TLC's are shorter), or nothing: None.         *)
(***************************************************************************)
EXTENDS Integers, Sequences

CONSTANTS
    SentTags,       \* tags the gateway uses
    Samples,        \* sets of values it sends: one for each kind
    MaxFields       \* bound on the fields of one answer

Sixteen == "unsigned"
ValueKinds == {"byte", "distance", "signed", Sixteen, "long", "utc"}

Absent == <<>>

\* Integers of so many bits.
UInt(bits) == 0 .. 2^bits - 1
SInt(bits) == -(2^(bits - 1)) .. 2^(bits - 1) - 1

\* The numbers of a kind.
Numbers(kind) ==
    CASE kind = "byte" -> [1..1 -> UInt(8)]
      [] kind = "distance" -> [1..1 -> 0..40]
      [] kind = "signed" -> [1..1 -> SInt(16)]
      [] kind = Sixteen -> [1..1 -> UInt(16)]
      [] kind = "long" -> [1..4 -> UInt(8)]
      [] kind = "utc" -> [1..4 -> UInt(8)] \ {<<255, 255, 255, 255>>}

ASSUME FrameAssumption ==
    /\ SentTags \subseteq UInt(8) /\ MaxFields \in Nat
    /\ \A n \in DOMAIN Samples, kind \in ValueKinds :
         \/ Samples[n][kind] \in Numbers(kind)
         \/ kind \in {"distance", "utc"} /\ Samples[n][kind] = Absent

VARIABLES
    command,        \* 39 (live data) or 87 (rain)
    fields, payload, \* gateway: the fields it composes, the bytes it puts into the frame
    ends,           \* history: where in the payload each field ends
    stage, index, seen, \* the receiver
    decoded

frameVars == <<command, fields, payload, ends, stage, index, seen, decoded>>

Odd(S) == {t \in S : t % 2 = 1}
Even(S) == {t \in S : t % 2 = 0}

\* live_data_struct and rain_data_struct: the decode function of a tag.
Live(t) ==
    CASE t \in (1..5) \cup (26..33) \cup Odd(43..73) -> "temp"
      [] t \in {6, 7, 23} \cup (34..41) \cup Even(44..74) \cup (88..91) \cup (114..121) -> "humid"
      [] t \in (8..17) \cup {22, 25, 42} \cup (77..83) -> "press"
      [] t \in (18..21) \cup {98, 108} -> "long"
      [] t = 24 -> "datetime"
      [] t = 76 -> "batt"
      [] t = 96 -> "distance"
      [] t = 97 -> "utc"
      [] t \in 99..106 -> "wn34"
      [] t = 107 -> "wh46"
      [] t = 112 -> "wh45"
      [] OTHER -> "unknown"

Rain(t) ==
    CASE t \in {13, 14, 15, 128, 129} -> "press"
      [] t \in (16..19) \cup (131..134) -> "long"
      [] t \in {122, 123} -> "humid"
      [] t = 130 -> "reserved"
      [] t = 135 -> "rain_gain"
      [] t = 136 -> "rain_reset"
      [] OTHER -> "unknown"

Structure(t) == IF command = 39 THEN Live(t) ELSE Rain(t)

Width(fn) ==
    CASE fn \in {"humid", "distance"} -> 1
      [] fn \in {"temp", "press", "reserved"} -> 2
      [] fn \in {"wn34", "rain_reset"} -> 3
      [] fn \in {"long", "utc"} -> 4
      [] fn = "datetime" -> 6
      [] fn \in {"batt", "wh45"} -> 16
      [] fn = "rain_gain" -> 20
      [] fn = "wh46" -> 24

\* Air quality: temperature, humidity, concentrations.
Station(n) == [i \in 1..n |-> IF i = 1 THEN "signed" ELSE IF i = 2 THEN "byte" ELSE Sixteen]

\* The values in the bytes of a field; the rest, batteries, and what is not a
\* number are not reported.
Parts(fn) ==
    CASE fn = "humid" -> <<"byte">>
      [] fn = "distance" -> <<"distance">>
      [] fn = "press" -> <<Sixteen>>
      [] fn \in {"temp", "wn34"} -> <<"signed">>
      [] fn = "long" -> <<"long">>
      [] fn = "utc" -> <<"utc">>
      [] fn = "wh45" -> Station(8)
      [] fn = "wh46" -> Station(12)
      [] OTHER -> <<>>

Bytes(kind) == CASE kind \in {"byte", "distance"} -> 1
                 [] kind \in {"signed", Sixteen} -> 2
                 [] OTHER -> 4

Offset(i) == CASE i = 1 -> 0 [] i = 2 -> 2 [] OTHER -> 2 * i - 3

\* struct.unpack, of big-endian integers.
Signed(b) == LET n == 256 * b[1] + b[2] IN IF n >= 32768 THEN n - 65536 ELSE n

Unpack(kind, b) ==
    CASE kind \in {"byte", "distance"} -> b
      [] kind = "signed" -> <<Signed(b)>>
      [] kind = Sixteen -> <<256 * b[1] + b[2]>>
      [] OTHER -> b

\* Absent: no lightning yet.
IsNone(kind, b) ==
    \/ kind = "distance" /\ b[1] > 40
    \/ kind = "utc" /\ b = <<255, 255, 255, 255>>

Part(fn, i, data) == SubSeq(data, Offset(i) + 1, Offset(i) + Bytes(Parts(fn)[i]))

\* The names of the values of a field: WH46 (107) shares those of WH45 (112).
Name(t, i) == <<IF t = 107 THEN 112 ELSE t, i>>

\* A decode function: nothing of data that is shorter than the field.
Decode(t, data) ==
    LET fn == Structure(t)
        part(i) == Part(fn, i, data)
        found == {i \in DOMAIN Parts(fn) : Len(data) = Width(fn) /\ ~IsNone(Parts(fn)[i], part(i))}
    IN {<<Name(t, i), Parts(fn)[i], Unpack(Parts(fn)[i], part(i))>> : i \in found}

FrameTypeOK ==
    /\ command \in {39, 87}
    /\ \A i \in DOMAIN fields : fields[i].tag \in UInt(8)
    /\ payload \in Seq(UInt(8))
    /\ DOMAIN ends = DOMAIN fields /\ \A i \in DOMAIN ends : ends[i] \in Nat
    /\ stage \in {"composing", "connected", "scan", "parse", "accepted", "refused"}
    /\ index \in 1..(Len(payload) + 25) /\ seen \subseteq UInt(8)
    /\ \A d \in decoded : d[3] \in Numbers(d[2])

FrameInit ==
    /\ command \in {39, 87}
    /\ fields = <<>> /\ payload = <<>> /\ ends = <<>>
    /\ stage = "composing" /\ index = 1 /\ seen = {} /\ decoded = {}

\* The worker of another kind of receiver.
FrameOff ==
    /\ command = 39 /\ fields = <<>> /\ payload = <<>> /\ ends = <<>>
    /\ stage = "refused" /\ index = 1 /\ seen = {} /\ decoded = {}
-----------------------------------------------------------------------------
(* The gateway (external).                                                 *)

\* What a value is sent as.
Encode(kind, v) ==
    CASE kind = "distance" -> IF v = Absent THEN <<255>> ELSE v
      [] kind = "byte" -> v
      [] kind \in {"signed", Sixteen} -> <<(v[1] % 65536) \div 256, v[1] % 256>>
      [] OTHER -> IF v = Absent THEN <<255, 255, 255, 255>> ELSE v

Places(fn, i) == Offset(i) + 1 .. Offset(i) + Bytes(Parts(fn)[i])

\* Each value at its place; 7 in the bytes that are not reported.
Layout(fn, values) ==
    [j \in 1..Width(fn) |->
        IF \E i \in DOMAIN values : j \in Places(fn, i)
        THEN LET i == CHOOSE i \in DOMAIN values : j \in Places(fn, i)
             IN Encode(Parts(fn)[i], values[i])[j - Offset(i)]
        ELSE 7]

DataOf(f) ==
    LET fn == Structure(f.tag)
    IN IF fn = "unknown" THEN <<7>> ELSE Layout(fn, f.values)

\* The values of a field that are numbers.
Meant(f) ==
    {<<Name(f.tag, i), Parts(Structure(f.tag))[i], f.values[i]>> :
        i \in {i \in DOMAIN f.values : f.values[i] # Absent}}

Field(t, n) ==
    LET kinds == IF Structure(t) = "unknown" THEN <<>> ELSE Parts(Structure(t))
    IN [tag |-> t, values |-> [i \in DOMAIN kinds |-> Samples[n][kinds[i]]]]

AddsField ==
    /\ stage = "composing" /\ Len(fields) < MaxFields
    /\ \E t \in SentTags, n \in DOMAIN Samples :
         /\ fields' = Append(fields, Field(t, n))
         /\ payload' = payload \o <<t>> \o DataOf(Field(t, n))
    /\ ends' = Append(ends, Len(payload'))
    /\ UNCHANGED <<command, stage, index, seen, decoded>>

\* A firmware without room puts in what fits: from all of it to nothing, cut off
\* within a field or between two.
Sends ==
    /\ stage = "composing" /\ fields # <<>>
    /\ \E n \in 0..Len(payload) : payload' = SubSeq(payload, 1, n)
    /\ stage' = "connected"
    /\ UNCHANGED <<command, fields, ends, index, seen, decoded>>
-----------------------------------------------------------------------------
(* The receiver.                                                           *)

Refuses == stage' = "refused" /\ UNCHANGED <<index, seen, decoded>>

\* request and frame_payload: all of the bytes that were announced.
Receives ==
    /\ stage = "connected" /\ stage' = "scan"
    /\ UNCHANGED <<command, fields, payload, ends, index, seen, decoded>>

\* They are no frame of the command, or the connection ends or stands still before
\* the last of them.
BreaksOff ==
    /\ stage = "connected" /\ Refuses
    /\ UNCHANGED <<command, fields, payload, ends>>

Tag == payload[index]
Following == index + 1 + Width(Structure(Tag))

\* Mutant: the end of the last field is not compared with the end of the payload.
Overruns_Never == FALSE
Overruns == Following > Len(payload) + 1

\* parse_values: unsupported_gateway_field and truncated_gateway_field.
Scans ==
    /\ stage = "scan" /\ index <= Len(payload)
    /\ IF Structure(Tag) = "unknown" \/ Tag \in seen \/ Overruns
       THEN Refuses
       ELSE index' = Following /\ seen' = seen \cup {Tag} /\ UNCHANGED <<stage, decoded>>
    /\ UNCHANGED <<command, fields, payload, ends>>

ScanEnds ==
    /\ stage = "scan" /\ index > Len(payload)
    /\ stage' = "parse" /\ index' = 1
    /\ UNCHANGED <<command, fields, payload, ends, seen, decoded>>

\* parse_addressed_data: a slice that is cut off at the end of the payload.
Slice == SubSeq(payload, index + 1, IF Following - 1 > Len(payload) THEN Len(payload) ELSE Following - 1)

\* An unknown tag ends the loop.
GoesOn == IF index < Len(payload) THEN Structure(Tag) # "unknown" ELSE FALSE

\* data.update: a value replaces another one of its name.
Parses ==
    /\ stage = "parse" /\ GoesOn
    /\ LET new == Decode(Tag, Slice)
       IN decoded' = {d \in decoded : \A e \in new : e[1] # d[1]} \cup new
    /\ index' = Following
    /\ UNCHANGED <<command, fields, payload, ends, stage, seen>>

ParseEnds ==
    /\ stage = "parse" /\ ~GoesOn
    /\ stage' = "accepted"
    /\ UNCHANGED <<command, fields, payload, ends, index, seen, decoded>>

\* The next request.
AsksAgain ==
    /\ stage \in {"accepted", "refused"}
    /\ fields' = <<>> /\ payload' = <<>> /\ ends' = <<>>
    /\ stage' = "composing" /\ index' = 1 /\ seen' = {} /\ decoded' = {}
    /\ UNCHANGED command

FrameNext ==
    \/ AddsField \/ Sends \/ Receives \/ BreaksOff
    \/ Scans \/ ScanEnds \/ Parses \/ ParseEnds \/ AsksAgain

FrameSpec == FrameInit /\ [][FrameNext]_frameVars
-----------------------------------------------------------------------------
\* The fields that are all in the frame.
Whole == {i \in DOMAIN fields : ends[i] <= Len(payload)}

\* The values of a field whose names no later field of J has.
Kept(i, J) ==
    {d \in Meant(fields[i]) : \A j \in J : j > i => \A e \in Meant(fields[j]) : e[1] # d[1]}

\* "Checksum, command, frame length, duplicate tags and inventory shape are checked
\* before the bundled upstream parser runs. Unknown tags/models reject the snapshot"
\* (native-ingest-v3.md): an answer that is accepted has no field in part and none
\* twice, and what is decoded of it is every value of every field it has, of WH45
\* and WH46, which share their names, that of the later one.  (One that is cut off
\* between two fields is accepted; the rest of its fields is missing.)
ReadAsSent ==
    stage = "accepted" =>
        /\ Len(payload) = 0 \/ \E i \in DOMAIN fields : ends[i] = Len(payload)
        /\ \A i, j \in Whole : fields[i].tag = fields[j].tag => i = j
        /\ decoded = UNION {Kept(i, Whole) : i \in Whole}
=============================================================================
