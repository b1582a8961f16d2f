---------------------------- MODULE ManifestText ----------------------------
(***************************************************************************)
(* The text of the manifest (sstable.go): a header per level, under it a   *)
(* line per table, on level 1 with the key range of the table.             *)
(*                                                                         *)
(* The level state is what the code has: a sequence of levels, each with   *)
(* its tables and, by table, the ranges of some of them.  %q and           *)
(* strconv.Unquote are inverse on every string, so a key in a line is the  *)
(* key.                                                                    *)
(***************************************************************************)
EXTENDS Integers, SequencesExt

CONSTANT NoRange     \* the range of a table the manifest gives none for

\* The lines of rewriteManifestFromLevels.
Header(level) == [kind |-> "header", level |-> level]

\* The range is not written.
TableLine_nameOnly(level, t) == [kind |-> "table", idx |-> t.idx, range |-> NoRange]

TableLine(level, t) ==
  [kind |-> "table", idx |-> t.idx, range |-> IF level = 1 THEN t.range ELSE NoRange]
Blank == [kind |-> "blank"]

\* sort.Slice of levels by their numbers, which differ.
Sorted(levels) ==
  CHOOSE s \in [DOMAIN levels -> {levels[i] : i \in DOMAIN levels}] :
    /\ \A i \in DOMAIN levels : \E j \in DOMAIN s : s[j] = levels[i]
    /\ \A i, j \in DOMAIN s : i < j => s[i].level < s[j].level

\* rewriteManifestFromLevels.
ManifestLines(levels) ==
  FlattenSeq([i \in DOMAIN levels |->
    LET lv == Sorted(levels)[i]
    IN  <<Header(lv.level)>>
          \o [j \in DOMAIN lv.tables |-> TableLine(lv.level, lv.tables[j])]
          \o <<Blank>>])

\* getAllSSTables: a header ends the level before it and starts the next, a
\* table belongs to the level last started, the end of the file ends the last.
Parsed(line, read) ==
  CASE line.kind = "header" -> Append(read, [level |-> line.level, tables |-> <<>>])
    [] line.kind = "table" /\ read # <<>> ->
         [read EXCEPT ![Len(read)].tables =
            Append(@, [idx |-> line.idx, range |-> line.range])]
    [] OTHER -> read

ParseManifest(lines) ==
  LET read[n \in 0..Len(lines)] ==
        IF n = 0 THEN <<>> ELSE Parsed(lines[n], read[n - 1])
  IN  read[Len(lines)]

\* getTablesForLevel.
TablesOf(levels, l) ==
  LET found == {i \in DOMAIN levels : levels[i].level = l}
  IN  IF found = {} THEN <<>> ELSE levels[CHOOSE i \in found : TRUE].tables

\* appendTableToManifestLocked: the table becomes the last of its level.
WithTable(levels, l, t) ==
  IF \E i \in DOMAIN levels : levels[i].level = l
  THEN [i \in DOMAIN levels |->
          IF levels[i].level = l THEN [levels[i] EXCEPT !.tables = Append(@, t)]
                                 ELSE levels[i]]
  ELSE Sorted(Append(levels, [level |-> l, tables |-> <<t>>]))
=============================================================================
