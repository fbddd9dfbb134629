------------------------------- MODULE Hpack --------------------------------
(***************************************************************************)
(* The header compression of ts/lib/x/grpc_basic/http2/hpack.ts: the table *)
(* that the two ends of a connection keep, what the Compressor of the one  *)
(* writes and what the Decompressor of the other makes of it.              *)
(*                                                                         *)
(* A header is a pair of a name and a value; an entry of the table is one  *)
(* unit long, or two when its value is long.  Strings and integers come    *)
(* back as they were (Huffman coding, prefixes); names are lower case; no  *)
(* caller changes the limit of the table, or sends a cookie or an          *)
(* authorization, which are never indexed.                                 *)
(***************************************************************************)
EXTENDS Integers, Sequences

CONSTANTS
  Static,  \* staticTable
  Limit,   \* DEFAULT_HEADER_TABLE_LIMIT
  Long     \* The values that are long.

Size(pair) == IF pair[2] \in Long THEN 2 ELSE 1

TableSize(table) ==
  LET size[k \in 0 .. Len(table)] == IF k = 0 THEN 0 ELSE size[k - 1] + Size(table[k])
  IN  size[Len(table)]

\* _enforceLimit: entries are dropped from the end.
Enforced(table, limit) ==
  LET fits(k) == TableSize(SubSeq(table, 1, k)) <= limit
      kept == CHOOSE k \in 0 .. Len(table) :
                /\ k = 0 \/ fits(k)
                /\ \A j \in k + 1 .. Len(table) : ~fits(j)
  IN  SubSeq(table, 1, kept)

\* add: at the front, if it fits into the table at all.
Added(table, pair) ==
  LET left == Enforced(table, Limit - Size(pair))
  IN  IF TableSize(left) <= Limit - Size(pair) THEN <<pair>> \o left ELSE left

\* The static part and the header table are one list.
Entries(table) == Static \o table

First(S) == CHOOSE i \in S : \A j \in S : i <= j

\* __transform of one header: the index of the whole pair, or a literal with
\* the index of its name, if there is one.
Written(pair, table) ==
  LET all == Entries(table)
      full == {i \in DOMAIN all : all[i] = pair}
      name == {i \in DOMAIN all : all[i][1] = pair[1]}
      index == 2 * Size(pair) < Limit
  IN  IF full # {}
        THEN [rep |-> [kind |-> "indexed", index |-> First(full)], table |-> table]
        ELSE [rep |-> [kind |-> "literal", index |-> IF name = {} THEN 0 ELSE First(name),
                       name |-> pair[1], value |-> pair[2], add |-> index],
              table |-> IF index THEN Added(table, pair) ELSE table]

\* compress: the block of a header set, and the table after it.
Compressed(headers, table) ==
  LET after[k \in 0 .. Len(headers)] ==
        IF k = 0 THEN [block |-> << >>, table |-> table]
        ELSE LET acc == after[k - 1]
                 w == Written(headers[k], acc.table)
             IN  [block |-> Append(acc.block, w.rep), table |-> w.table]
  IN  after[Len(headers)]

\* Faulty variant of Executed: what was not to be indexed is added as well.
ExecutedAdding(rep, table) ==
  LET all == Entries(table)
      pair == <<IF rep.index = 0 THEN rep.name ELSE all[rep.index][1], rep.value>>
  IN  IF rep.index > Len(all) THEN [ok |-> FALSE, pair |-> << >>, table |-> table]
      ELSE IF rep.kind = "indexed"
        THEN [ok |-> TRUE, pair |-> all[rep.index], table |-> table]
        ELSE [ok |-> TRUE, pair |-> pair, table |-> Added(table, pair)]

\* _execute: an index that the table does not have throws.
Executed(rep, table) ==
  LET all == Entries(table)
      pair == <<IF rep.index = 0 THEN rep.name ELSE all[rep.index][1], rep.value>>
  IN  IF rep.index > Len(all) THEN [ok |-> FALSE, pair |-> << >>, table |-> table]
      ELSE IF rep.kind = "indexed"
        THEN [ok |-> TRUE, pair |-> all[rep.index], table |-> table]
        ELSE [ok |-> TRUE, pair |-> pair, table |-> IF rep.add THEN Added(table, pair) ELSE table]

\* decompress: the headers of a block, up to where it throws.
Decompressed(block, table) ==
  LET after[k \in 0 .. Len(block)] ==
        IF k = 0 THEN [ok |-> TRUE, headers |-> << >>, table |-> table]
        ELSE LET acc == after[k - 1]
                 x == Executed(block[k], acc.table)
             IN  IF ~acc.ok \/ ~x.ok THEN [acc EXCEPT !.ok = FALSE]
                 ELSE [ok |-> TRUE, headers |-> Append(acc.headers, x.pair), table |-> x.table]
  IN  after[Len(block)]
=============================================================================
