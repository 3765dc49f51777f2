------------------------------ MODULE Metadata ------------------------------
(***************************************************************************)
(* The metadata of a call from Dart: invokeBackendAsync of                 *)
(* lib/synurang.dart writes it as lines "key=value", the first of them the *)
(* time limit, and parseMetadata of cmd/server/main.go reads it back.      *)
(* A byte is a string; "\n" ends a line, TimeoutKey is the reserved key    *)
(* "__timeout_ms", and a digit stands for a number.                        *)
(***************************************************************************)
EXTENDS Integers, Sequences, FiniteSetsExt

TimeoutKey == <<"__timeout_ms">>
Digits     == [d \in {"0", "5"} |-> IF d = "0" THEN 0 ELSE 5]

(* One line per entry, the time limit before them if there is one.         *)
Line(key, value) == key \o <<"=">> \o value \o <<"\n">>
Encode(limit, entries) ==
  LET text[n \in 0 .. Len(entries)] ==
        IF n # 0 THEN text[n - 1] \o Line(entries[n][1], entries[n][2])
        ELSE IF limit = <<>> THEN <<>> ELSE Line(TimeoutKey, limit)
  IN text[Len(entries)]

(* A line is known by where it ends: at a "\n", or with the data if there  *)
(* is something after the last "\n".  It starts after the "\n" before.     *)
SplitLines(data) ==
  {e \in 1 .. Len(data) + 1 : IF e <= Len(data) THEN data[e] = "\n"
                              ELSE data # <<>> /\ data[Len(data)] # "\n"}
Start(data, e)  == Max({i \in 1 .. e - 1 : data[i] = "\n"} \cup {0}) + 1
LineTo(data, e) == SubSeq(data, Start(data, e), e - 1)

(* The position of ch, 0 when it does not occur.                           *)
Positions(data, ch)  == {i \in 1 .. Len(data) : data[i] = ch}
BugIndexOf(data, ch) == Max(Positions(data, ch) \cup {0})
IndexOf(data, ch) ==
  IF Positions(data, ch) = {} THEN 0 ELSE Min(Positions(data, ch))

(* What a line says: its key is before the first "=", the value after it.  *)
(* A line without a key or without "=" is ignored.                         *)
Key(line)     == SubSeq(line, 1, IndexOf(line, "=") - 1)
Value(line)   == SubSeq(line, IndexOf(line, "=") + 1, Len(line))
Entries(data) == {e \in SplitLines(data) : IndexOf(LineTo(data, e), "=") > 1}
Of(data, key) == {e \in Entries(data) : Key(LineTo(data, e)) = key}

(* fmt.Sscanf(value, "%d", &timeoutMs): nothing changes if no number leads.*)
Sscanf(value) == value # <<>> /\ Head(value) \in DOMAIN Digits

(* The later of two lines with the same key counts.                        *)
Meta(data) ==
  [key \in {Key(LineTo(data, e)) : e \in Entries(data)} \ {TimeoutKey} |->
     Value(LineTo(data, Max(Of(data, key))))]
Limits(data)    == {e \in Of(data, TimeoutKey) : Sscanf(Value(LineTo(data, e)))}
TimeoutMs(data) ==
  IF Limits(data) = {} THEN 0
  ELSE Digits[Head(Value(LineTo(data, Max(Limits(data)))))]

ParseMetadata(data) == [meta |-> Meta(data), limit |-> TimeoutMs(data)]

---------------------------------------------------------------------------
(* The inputs the round trip is checked for: maps of two keys, values of   *)
(* up to two bytes, which may hold "=" and digits but no "\n".             *)
SomeKeys   == {<<"a">>, <<"b", "a">>}
SomeValues == UNION {[1 .. n -> {"a", "=", "5"}] : n \in 0 .. 2}
SomeLimits == {<<>>, <<"0">>, <<"5">>}
SomeMaps   == UNION {[K -> SomeValues] : K \in SUBSET SomeKeys}

(* What Go reads is what Dart was given, in whatever order it wrote it.    *)
Orders(map) == {keys \in [1 .. Cardinality(DOMAIN map) -> DOMAIN map] :
                  \A key \in DOMAIN map : \E k \in DOMAIN keys : keys[k] = key}
ReadBack(limit, map) ==
  \A keys \in Orders(map) :
    LET parsed == ParseMetadata(Encode(limit,
                    [k \in DOMAIN keys |-> <<keys[k], map[keys[k]]>>]))
    IN /\ parsed.meta = map
       /\ parsed.limit = IF limit = <<>> THEN 0 ELSE Digits[limit[1]]
=============================================================================
