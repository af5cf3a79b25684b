--------------------------------- MODULE Schema ---------------------------------
(* A MySQL schema as the migration scripts see it, and what each statement     *)
(* they send does to it. A schema is a function from the names of the tables   *)
(* that exist to tables; a table keeps its columns, its indexes and its rows.  *)
(* The type of a column is the set of the values of this model it refuses:     *)
(* a nullable column refuses none, a NOT NULL one refuses NULL, an ENUM also   *)
(* the names it does not list. Only columns that some migration touches are    *)
(* kept.                                                                       *)
EXTENDS Integers, Sequences, SequencesExt

NULL == "NULL"

Nullable == {}
Required == {NULL}

Has(s, t) == t \in DOMAIN s
Columns(s, t) == IF Has(s, t) THEN DOMAIN s[t].columns ELSE {}
Indexes(s, t) == IF Has(s, t) THEN s[t].indexes ELSE {}

(* The statements, as the scripts issue them through alembic.op.               *)
CreateTable(t, columns) == [op |-> "create table", table |-> t, columns |-> columns]
DropTable(t) == [op |-> "drop table", table |-> t]
RenameTable(t, new) == [op |-> "rename table", table |-> t, new |-> new]
AddColumn(t, c, refuses, default) ==
    [op |-> "add column", table |-> t, column |-> c, refuses |-> refuses, value |-> default]
DropColumn(t, c) == [op |-> "drop column", table |-> t, column |-> c]
RenameColumn(t, c, new) == [op |-> "rename column", table |-> t, column |-> c, new |-> new]
Modify(t, c, refuses) == [op |-> "modify", table |-> t, column |-> c, refuses |-> refuses]
CreateIndex(t, i) == [op |-> "create index", table |-> t, index |-> i]
DropIndex(t, i) == [op |-> "drop index", table |-> t, index |-> i]
(* UPDATE t SET c = from WHERE c IS NULL                                       *)
Fill(t, c, from) == [op |-> "fill", table |-> t, column |-> c, from |-> from]
(* UPDATE t SET c = new WHERE c = old (IS NULL, when old is NULL)              *)
Replace(t, c, old, new) == [op |-> "replace", table |-> t, column |-> c, old |-> old, value |-> new]
(* UPDATE t SET c = its from WHERE c IS NULL AND EXISTS (a row of source with  *)
(* source.key = t.id and source.from IS NOT NULL)                              *)
Backfill(t, c, source, key, from) ==
    [op |-> "backfill", table |-> t, column |-> c, source |-> source, key |-> key, from |-> from]
(* INSERT INTO t SELECT ... FROM source WHERE from IS NOT NULL: row with the   *)
(* selected value as its column c.                                             *)
InsertFrom(t, row, c, source, from) ==
    [op |-> "insert from", table |-> t, row |-> row, column |-> c, source |-> source, from |-> from]
InsertRows(t, rows) == [op |-> "insert", table |-> t, rows |-> rows]
(* DELETE FROM t WHERE c IS NULL OR c != keep                                  *)
DeleteOthers(t, c, keep) == [op |-> "delete others", table |-> t, column |-> c, value |-> keep]
(* DELETE FROM t WHERE c IN values                                             *)
DeleteIn(t, c, values) == [op |-> "delete in", table |-> t, column |-> c, values |-> values]

(* A statement on the schema commits what came before it, and itself; a        *)
(* statement on rows waits for the next commit.                                *)
IsDDL(st) ==
    st.op \notin {"fill", "replace", "backfill", "insert from", "insert", "delete others", "delete in"}

(* MySQL refuses to create what exists, to drop or rename what does not, and   *)
(* (in strict mode) to narrow a column that a row would no longer fit.         *)
Refused(s, st) ==
    CASE st.op = "create table" -> Has(s, st.table)
      [] st.op = "rename table" -> ~Has(s, st.table) \/ Has(s, st.new)
      [] st.op = "add column"   -> ~Has(s, st.table) \/ st.column \in Columns(s, st.table)
      [] st.op = "rename column" ->
            st.column \notin Columns(s, st.table) \/ st.new \in Columns(s, st.table)
      [] st.op = "modify" ->
            \/ st.column \notin Columns(s, st.table)
            \/ \E i \in DOMAIN s[st.table].rows : s[st.table].rows[i][st.column] \in st.refuses
      [] st.op = "drop column"  -> st.column \notin Columns(s, st.table)
      [] st.op = "create index" -> ~Has(s, st.table) \/ st.index \in Indexes(s, st.table)
      [] st.op = "drop index"   -> st.index \notin Indexes(s, st.table)
      [] OTHER                  -> ~Has(s, st.table)

Without(f, x) == [y \in DOMAIN f \ {x} |-> f[y]]
Renamed(f, x, new) == (new :> f[x]) @@ Without(f, x)
EachRow(rows, F(_)) == [i \in DOMAIN rows |-> F(rows[i])]

(* The rows st.table has in s after a statement that only changes rows.        *)
RowsAfter(s, st) ==
    LET rows == s[st.table].rows IN
    CASE st.op = "fill" ->
            EachRow(rows, LAMBDA r : IF r[st.column] = NULL
                                     THEN [r EXCEPT ![st.column] = r[st.from]] ELSE r)
      [] st.op = "replace" ->
            EachRow(rows, LAMBDA r : IF r[st.column] = st.old
                                     THEN [r EXCEPT ![st.column] = st.value] ELSE r)
      [] st.op = "backfill" ->
            LET Sources(r) == SelectSeq(s[st.source].rows,
                                        LAMBDA m : m[st.key] = r.id /\ m[st.from] # NULL)
            IN EachRow(rows, LAMBDA r : IF r[st.column] = NULL /\ Sources(r) # <<>>
                                        THEN [r EXCEPT ![st.column] = Sources(r)[1][st.from]] ELSE r)
      [] st.op = "insert from" ->
            rows \o EachRow(SelectSeq(s[st.source].rows, LAMBDA m : m[st.from] # NULL),
                            LAMBDA m : [st.row EXCEPT ![st.column] = m[st.from]])
      [] st.op = "insert" -> rows \o st.rows
      [] st.op = "delete others" -> SelectSeq(rows, LAMBDA r : r[st.column] = st.value)
      [] st.op = "delete in" -> SelectSeq(rows, LAMBDA r : r[st.column] \notin st.values)

(* A table after a statement that changes its columns or indexes.              *)
Altered(tb, st) ==
    CASE st.op = "add column" ->
            [tb EXCEPT !.columns = (st.column :> st.refuses) @@ @,
                       !.rows = EachRow(@, LAMBDA r : (st.column :> st.value) @@ r)]
      [] st.op = "drop column" ->
            [tb EXCEPT !.columns = Without(@, st.column),
                       !.rows = EachRow(@, LAMBDA r : Without(r, st.column))]
      [] st.op = "rename column" ->
            [tb EXCEPT !.columns = Renamed(@, st.column, st.new),
                       !.rows = EachRow(@, LAMBDA r : Renamed(r, st.column, st.new))]
      [] st.op = "modify" -> [tb EXCEPT !.columns[st.column] = st.refuses]
      [] st.op = "create index" -> [tb EXCEPT !.indexes = @ \cup {st.index}]
      [] st.op = "drop index" -> [tb EXCEPT !.indexes = @ \ {st.index}]

Apply(s, st) ==
    CASE st.op = "create table" ->
            (st.table :> [columns |-> st.columns, indexes |-> {}, rows |-> <<>>]) @@ s
      [] st.op = "drop table" -> Without(s, st.table)
      [] st.op = "rename table" -> Renamed(s, st.table, st.new)
      [] ~IsDDL(st) -> [s EXCEPT ![st.table].rows = RowsAfter(s, st)]
      [] OTHER -> [s EXCEPT ![st.table] = Altered(@, st)]

(* Loops of the scripts over a tuple of names.                                 *)
When(condition, statements) == IF condition THEN statements ELSE <<>>
Missing(names, existing) == SelectSeq(names, LAMBDA c : c \notin existing)
Existing(names, existing) == SelectSeq(names, LAMBDA c : c \in existing)
AddColumns(t, names, refuses, default) ==
    [i \in DOMAIN names |-> AddColumn(t, names[i], refuses, default)]
DropColumns(t, names) == [i \in DOMAIN names |-> DropColumn(t, names[i])]
CreateIndexes(t, names) == [i \in DOMAIN names |-> CreateIndex(t, names[i])]
DropIndexes(t, names) == [i \in DOMAIN names |-> DropIndex(t, names[i])]
=================================================================================
