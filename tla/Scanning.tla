------------------------------ MODULE Scanning ------------------------------
(***************************************************************************)
(* What scan_journal returns stated without the state of its loop, by      *)
(* looking at the file as a whole.                                         *)
(***************************************************************************)
EXTENDS Journal, FiniteSets, FiniteSetsExt

Markers(r) == {n \in DOMAIN r : r[n].kind # "data"}

\* The Begin or Commit that a record follows, 0 if there is none.
Opens(r, n) == Max({0} \cup {m \in Markers(r) : m < n})

\* A Begin at b is committed if the next Begin or Commit is its own Commit and
\* the records in between are those that it covers.
Committed(r, b) ==
  LET c == b + r[b].count + 1
  IN  /\ c \in DOMAIN r /\ r[c].kind = "commit"
      /\ r[c].id = r[b].id /\ r[c].count = r[b].count
      /\ Markers(r) \cap (b + 1) .. (c - 1) = {}
      /\ r[c].chain = [i \in 1 .. r[b].count |-> r[b + i].op]

\* The data records to apply: those of a committed transaction, and those that
\* follow no Begin.
Applies(r, n) ==
  /\ r[n].kind = "data"
  /\ LET b == Opens(r, n)
     IN  b # 0 => r[b].kind = "commit" \/ Committed(r, b)

\* Those among the first n records, in file order.
Kept(r) ==
  LET kept[n \in 0 .. Len(r)] ==
        IF n = 0 THEN <<>>
        ELSE IF Applies(r, n) THEN Append(kept[n - 1], r[n]) ELSE kept[n - 1]
  IN  kept

\* The transactions that begin among the first n records and never commit.
Lost(r, n) == {b \in 1 .. n : r[b].kind = "begin" /\ ~ Committed(r, b)}

\* The scan returns exactly the records to apply, in file order, and reports
\* every transaction that did not commit.
ScanIsReference ==
  LET r == Readable(recs)
  IN  /\ Scan(recs).records = Kept(r)[Len(r)]
      /\ Scan(recs).unfinished = Cardinality(Lost(r, Len(r)))

=============================================================================
