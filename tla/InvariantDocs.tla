---------------------------- MODULE InvariantDocs ----------------------------
(***************************************************************************)
(* scripts/invariant-doc-gen.ts: reads the comments of invariant tests and  *)
(* writes invariant-docs/, one file for each contract that has tests of     *)
(* forge, of echidna or of both, and the table of contents in its README.   *)
(*                                                                          *)
(* A line is of a kind: "open" begins a comment, "oneLine" is all of one,   *)
(* "inv" has the tag, "text" and "blank" go on, "close" ends it, "code" is  *)
(* any other.  The script may be killed between two files it writes.        *)
(***************************************************************************)
EXTENDS Integers, Sequences, SequencesExt, FiniteSetsExt

CONSTANTS
  Tests,        \* file names, each with the directory and the contract
  Contents,     \* for each the sequences of lines it may have
  MaxEdits, MaxKills

VARIABLES
  dirs,         \* directories that exist
  tests,        \* the lines of each file, none if there is no such file
  docs,         \* invariant-docs: for each contract what its file consists of
  toc,          \* the contracts in the table of contents
  phase, todo, writtenFiles,  \* of the script
  current,      \* history: whether a run is on, or has ended, that no edit came after
  edits, kills

runVars == <<phase, todo, writtenFiles>>
docVars == <<dirs, tests, docs, toc, runVars, current, edits, kills>>

Names == {t.contract : t \in Tests}

-----------------------------------------------------------------------------
(* Reading a file *)

At(lines, i) == IF i <= Len(lines) THEN lines[i] ELSE "end"

\* /\*\s(.)+/ is true of these.
isHeader(line) == line \in {"inv", "text"}

startsWithStar(line) == line \in {"inv", "text", "blank", "close"}

\* The first line from i on that is no longer of the header, and the first after
\* that which is not of the comment.
HeaderEnd(lines, i) == Min({k \in i .. Len(lines) + 1 : ~isHeader(At(lines, k))})
DescEnd(lines, i) == Min({k \in i .. Len(lines) + 1 : ~startsWithStar(At(lines, k))})

\* A doc: the lines of its header and of its description, and the number of the
\* line it documents.
parseDoc(lines, i) ==
  LET h == HeaderEnd(lines, i + 1)
      d == DescEnd(lines, h + 1) IN
  [header |-> i .. h - 1, desc |-> h + 1 .. d - 1, lineNo |-> d]

\* The lines after a comment's first, and after an invariant's last, are passed over.
parse(lines) ==
  LET from[i \in 1 .. Len(lines) + 3] ==
        IF i > Len(lines) THEN <<>>
        ELSE IF lines[i] \notin {"open", "oneLine"} THEN from[i + 1]
        ELSE IF At(lines, i + 1) # "inv" THEN from[i + 2]
        ELSE LET doc == parseDoc(lines, i + 1) IN <<doc>> \o from[doc.lineNo + 1]
  IN from[1]

-----------------------------------------------------------------------------
(* Writing the files *)

DocsInit ==
  /\ dirs \in {{"invariants", "echidna"}, {"echidna"}}
  /\ tests \in {f \in [Tests -> (UNION {Contents[t] : t \in Tests}) \cup {<<>>}] :
                  \A t \in Tests : f[t] \in Contents[t] \cup {<<>>}}
  /\ docs = [n \in Names |-> <<>>]
  /\ toc = {}
  /\ phase = "idle" /\ todo = <<>> /\ writtenFiles = {}
  /\ current = "no"
  /\ edits = 0 /\ kills = 0

\* docGen reads all files of a directory before it writes.
Found(dir) ==
  SetToSeq({[contract |-> t.contract, test |-> t, docs |-> parse(tests[t])] :
              t \in {u \in Tests : u.dir = dir /\ tests[u] # <<>>}})

docGen(dir) ==
  /\ dir \in dirs
  /\ phase' = dir
  /\ todo' = Found(dir)
  /\ UNCHANGED <<dirs, tests, docs, toc, edits, kills>>

Start ==
  /\ phase = "idle"
  /\ docGen("invariants")
  /\ writtenFiles' = {}
  /\ current' = "begun"

Second ==
  /\ phase = "invariants" /\ todo = <<>>
  /\ docGen("echidna")
  /\ UNCHANGED <<writtenFiles, current>>

\* There is no such directory.
Throw ==
  /\ \/ phase = "idle" /\ "invariants" \notin dirs
     \/ phase = "invariants" /\ todo = <<>> /\ "echidna" \notin dirs
  /\ phase' = "thrown"
  /\ todo' = <<>>
  /\ UNCHANGED <<dirs, tests, docs, toc, writtenFiles, current, edits, kills>>

\* Bug: a file there from an earlier run is taken for one of this run.
alreadyWritten_Exists(name) == docs[name] # <<>>

alreadyWritten(name) == name \in writtenFiles

\* A file is written from scratch the first time, and then appended to.
Write ==
  /\ phase \in {"invariants", "echidna"} /\ todo # <<>>
  /\ LET contract == Head(todo)
         part == [test |-> contract.test, docs |-> contract.docs]
         name == contract.contract IN
       /\ docs' = [docs EXCEPT ![name] = IF alreadyWritten(name) THEN Append(@, part) ELSE <<part>>]
       /\ writtenFiles' = writtenFiles \cup {name}
  /\ todo' = Tail(todo)
  /\ UNCHANGED <<dirs, tests, toc, phase, current, edits, kills>>

tocGen ==
  /\ phase = "echidna" /\ todo = <<>>
  /\ toc' = {n \in Names : docs[n] # <<>>}
  /\ phase' = "idle"
  /\ current' = IF current = "begun" THEN "yes" ELSE "no"
  /\ UNCHANGED <<dirs, tests, docs, todo, writtenFiles, edits, kills>>

Kill ==
  /\ phase \notin {"idle", "thrown"}
  /\ kills < MaxKills
  /\ kills' = kills + 1
  /\ phase' = "idle" /\ todo' = <<>>
  /\ current' = "no"
  /\ UNCHANGED <<dirs, tests, docs, toc, writtenFiles, edits>>

\* Somebody changes or removes a test.
Edit ==
  /\ edits < MaxEdits
  /\ edits' = edits + 1
  /\ \E t \in Tests : \E lines \in Contents[t] \cup {<<>>} : tests' = [tests EXCEPT ![t] = lines]
  /\ current' = "no"
  /\ UNCHANGED <<dirs, docs, toc, runVars, kills>>

DocsNext == Start \/ Second \/ Throw \/ Write \/ tocGen \/ Kill \/ Edit

DocsSpec == DocsInit /\ [][DocsNext]_docVars

-----------------------------------------------------------------------------
(* Properties *)

DocsTypeOK ==
  /\ dirs \subseteq {"invariants", "echidna"}
  /\ toc \subseteq Names
  /\ phase \in {"idle", "invariants", "echidna", "thrown"}
  /\ writtenFiles \subseteq Names

\* What the documentation standard asks for: a comment that begins with the tag,
\* directly above a line of code.
Documented(lines) ==
  {i \in DOMAIN lines : lines[i] = "open" /\ At(lines, i + 1) = "inv"}

LineOf(lines, i) == Min({k \in i .. Len(lines) : lines[k] = "close"}) + 1

Documents(part, lines) ==
  /\ Len(part.docs) = Cardinality(Documented(lines))
  /\ {part.docs[k].lineNo : k \in DOMAIN part.docs} = {LineOf(lines, i) : i \in Documented(lines)}

\* After a run that ended, whatever was killed before it: the file of a contract
\* has each of its tests once, with every invariant documented in it and the line
\* it is about; and the contents list it.
DocsAreCurrent ==
  /\ DocsTypeOK
  /\ current = "yes" =>
       \A n \in Names :
         LET present == {t \in Tests : t.contract = n /\ tests[t] # <<>>} IN
         present # {} =>
           /\ n \in toc
           /\ Len(docs[n]) = Cardinality(present)
           /\ \A t \in present : \E k \in DOMAIN docs[n] :
                docs[n][k].test = t /\ Documents(docs[n][k], tests[t])
=============================================================================
