------------------------------- MODULE Headers -------------------------------
(* The headers of a message (src/nats-base-client/headers.ts): a map from  *)
(* the names of fields to their values, edited with one of three ways to   *)
(* match a name, written to the wire and read from it again. Strings are   *)
(* sequences of characters; a code is the sequence of its digits.          *)
EXTENDS Naturals, Sequences, SequencesExt, FiniteSetsExt

CONSTANTS
  Names, Texts,   \* the strings an application uses as names and as values
  Statuses,       \* codes and descriptions of headers that carry a status
  MaxEdits        \* bound: edits of one set of headers

VARIABLES
  hdrs,           \* [code, description, fields]; fields in the order of the Map
  edits,          \* the edits so far
  matches         \* the ways to match that were used

headerVars == <<hdrs, edits, matches>>

Match == {"Exact", "CanonicalMIME", "IgnoreCase"}
Digit == {"0", "1", "2", "3", "4", "5", "6", "7", "8", "9"}
Letters == <<[lower |-> "a", upper |-> "A"], [lower |-> "b", upper |-> "B"]>>
toLowerCase(c) == IF \E i \in DOMAIN Letters : Letters[i].upper = c
                  THEN (CHOOSE l \in Range(Letters) : l.upper = c).lower ELSE c
toUpperCase(c) == IF \E i \in DOMAIN Letters : Letters[i].lower = c
                  THEN (CHOOSE l \in Range(Letters) : l.lower = c).upper ELSE c
----------------------------------------------------------------------------
(* Words begin with a capital; a name has neither spaces nor colons.       *)
canonicalMIMEHeaderKey(k) ==
  [i \in DOMAIN k |-> IF i = 1 \/ k[i - 1] = "-" THEN toUpperCase(k[i]) ELSE toLowerCase(k[i])]
validKey(k) == Range(k) \cap {":", " ", "\r", "\n"} = {}

trim(s) ==
  LET kept == {i \in DOMAIN s : s[i] \notin {" ", "\r", "\n"}}
  IN IF kept = {} THEN <<>> ELSE SubSeq(s, Min(kept), Max(kept))
validHeaderValue(v) == Range(v) \cap {"\r", "\n"} = {}

\* The positions of the fields whose name matches.
findKeys(h, k, match) ==
  LET lower(s) == [i \in DOMAIN s |-> toLowerCase(s[i])]
  IN {i \in DOMAIN h.fields :
        CASE match = "Exact" -> h.fields[i].key = k
          [] match = "CanonicalMIME" -> h.fields[i].key = canonicalMIMEHeaderKey(k)
          [] OTHER -> lower(h.fields[i].key) = lower(k)}

values(h, k, match) ==
  FlattenSeq([i \in DOMAIN h.fields |-> IF i \in findKeys(h, k, match) THEN h.fields[i].values ELSE <<>>])

delete(h, k, match) ==
  LET gone == {h.fields[i] : i \in findKeys(h, k, match)}
  IN [h EXCEPT !.fields = SelectSeq(@, LAMBDA f : f \notin gone)]

\* The value is added to the first field that matches, or to a new one.
append(h, k, v, match) ==
  LET found == findKeys(h, k, match)
      name == IF match = "CanonicalMIME" THEN canonicalMIMEHeaderKey(k) ELSE k
  IN IF found # {} THEN [h EXCEPT !.fields[Min(found)].values = Append(@, trim(v))]
     ELSE [h EXCEPT !.fields = Append(@, [key |-> name, values |-> <<trim(v)>>])]

headers(status) == [code |-> status.code, description |-> status.description, fields |-> <<>>]
----------------------------------------------------------------------------
(* toString() and decode(), by lines; the version is the first word.       *)
HEADER == <<"N">>
toString(h) ==
  IF h.fields = <<>> /\ h.code = <<>> THEN <<<<>>>>
  ELSE LET status == IF h.code # <<>> /\ h.description # <<>>
                     THEN <<" ">> \o h.code \o <<" ">> \o h.description ELSE <<>>
           line(k, v) == k \o <<":", " ">> \o v
       IN <<HEADER \o status>>
          \o FlattenSeq([i \in DOMAIN h.fields |->
               [j \in DOMAIN h.fields[i].values |-> line(h.fields[i].key, h.fields[i].values[j])]])
          \o <<<<>>, <<>>>>

\* The number a text begins with, and the text without it.
parseInt(s) ==
  LET other == {i \in DOMAIN s : s[i] \notin Digit}
  IN IF other = {} THEN s ELSE SubSeq(s, 1, Min(other) - 1)
decodeStatus(line) ==
  LET str == trim(SubSeq(line, Len(HEADER) + 1, Len(line)))
  IN headers([code |-> parseInt(str), description |-> trim(SubSeq(str, Len(parseInt(str)) + 1, Len(str)))])

(* Faulty variant: the colon is looked for from the end of the line.       *)
decodeField_Last(mh, s) ==
  LET colons == {i \in DOMAIN s : s[i] = ":"}
  IN IF colons = {} THEN mh
     ELSE append(mh, SubSeq(s, 1, Max(colons) - 1), trim(SubSeq(s, Max(colons) + 1, Len(s))), "Exact")

decodeField(mh, s) ==
  LET colons == {i \in DOMAIN s : s[i] = ":"}
  IN IF colons = {} THEN mh
     ELSE append(mh, SubSeq(s, 1, Min(colons) - 1), trim(SubSeq(s, Min(colons) + 1, Len(s))), "Exact")

decode(lines) == FoldLeft(decodeField, decodeStatus(lines[1]), Tail(lines))

\* The same code and, whatever their order, the same values by each name.
equals(a, b) ==
  /\ Len(a.fields) = Len(b.fields) /\ a.code = b.code
  /\ \A f \in Range(a.fields) : ToBag(f.values) = ToBag(values(b, f.key, "Exact"))

toRecord(h) == [k \in {f.key : f \in Range(h.fields)} |-> values(h, k, "Exact")]
fromRecord(r, order) == [i \in DOMAIN order |-> [key |-> order[i], values |-> r[order[i]]]]
----------------------------------------------------------------------------
NoStatus == [code |-> <<>>, description |-> <<>>]
HeaderState(status, n) == hdrs = headers(status) /\ edits = n /\ matches = {}
HeadersInit   == \E status \in Statuses : HeaderState(status, 0)
HeadersUnused == HeaderState(NoStatus, MaxEdits)

Edited(match, h) ==
  /\ edits < MaxEdits /\ edits' = edits + 1
  /\ matches' = matches \cup {match} /\ hdrs' = h

\* A name or a value that is not valid throws. set() has deleted by then.
Appended(k, v, match) ==
  Edited(match, IF validKey(k) /\ validHeaderValue(v) THEN append(hdrs, k, v, match) ELSE hdrs)

set(k, v, match) ==
  LET h == IF validKey(k) THEN delete(hdrs, k, match) ELSE hdrs
  IN Edited(match, IF validKey(k) /\ validHeaderValue(v) THEN append(h, k, v, match) ELSE h)

Deleted(k, match) == validKey(k) /\ Edited(match, delete(hdrs, k, match))

HeadersNext ==
  \E k \in Names, match \in Match :
    \/ \E v \in Texts : Appended(k, v, match) \/ set(k, v, match)
    \/ Deleted(k, match)
----------------------------------------------------------------------------
\* Headers arrive as they were sent: reading what was written gives the same
\* status, names and values in their order, and a record of them the same
\* values; and headers edited with one way to match have one field for each
\* name that matches (headers.ts encode(), decode(), append(), set()).
HeadersSurvive ==
  /\ decode(toString(hdrs)) = hdrs /\ equals(hdrs, decode(toString(hdrs)))
  /\ LET names == [i \in DOMAIN hdrs.fields |-> hdrs.fields[i].key]
     IN fromRecord(toRecord(hdrs), names) = hdrs.fields
  /\ \A match \in Match : matches = {match} =>
       \A f \in Range(hdrs.fields) : Cardinality(findKeys(hdrs, f.key, match)) = 1
============================================================================
