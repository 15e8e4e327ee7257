----------------------------- MODULE Components -----------------------------
(***************************************************************************)
(* The components that share nothing with the threads of Context: Heap,    *)
(* and eleven others by instances.  A behaviour is one of one of them,     *)
(* picked at the start; the others stay in an initial state.               *)
(***************************************************************************)
EXTENDS Heap, Sequences, FiniteSets

CONSTANTS
    Texts, PipeSize,                          \* of ToolCommands
    Inputs, InitialCapacity,                  \* of ScratchCat
    Fields, MaxText,                          \* of PasswdRows
    Threads, ValidIds, BadId, First, Assoc,   \* of NameTable
    Files,                                    \* of Generators
    MaxBytes,                                 \* of LineInfo
    Size, MaxFile,                            \* of Buffer
    Names, Words, Nss, Passwd, Self, MaxArgs, \* of Get
    Uids, Gids, Variable, Group, MaxChanges,  \* of Admin
    Strings, StringLength, HashCode, Slots, AreaCapacity, Items,  \* of Scratch
    Locks, LockOf, Regions, UserNames, UserIds, PasswdFiles       \* of PasswdCursor

VARIABLES
    which,
    \* ToolCommands
    command, sumPc, sumStatus, state, tofd, fromfd, sum, sent, sumResult, child,
    heldEnd, input, hashed, output, ignored, printed,
    \* ScratchCat
    ispath, catStrings, todo, instr, catC, catPc, catOut, catCapacity, catStatus,
    \* PasswdRows
    text, head, col, starts, lengths, rows,
    \* NameTable
    names, nmPc, arg, iter, ret, after,
    \* Generators
    files, job, genPc, read, key, genKeys, next, array, genIndex, header, signup,
    asked, answered,
    \* LineInfo
    lineBytes, pos, begin, end, lino, colno, phase,
    \* Buffer
    path, file, replaced, was, bufPc, bufSize, memory, room, offset, buffer, bufResult,
    \* Get
    argv, getPc, opts, user, keys, sel, current, index, out, getStatus,
    \* Admin
    gidOf, primary, others, changes, own, admPc, uid, sysgrpname, systemGid, pwGid,
    nbgroups, groups, verdict, seen,
    \* Scratch
    scrHolder, areaCapacity, areaContent, chains, itemText, scrPc, scrArg, scrAt, scrRet,
    \* PasswdCursor
    pwFile, mapped, pwBuffer, pwPos, pwStarts, pwHolder, pwPc, want, pwAt, pwResult,
    pwSeen, crashed

Sum == INSTANCE ToolCommands WITH pc <- sumPc, status <- sumStatus, result <- sumResult
Cat == INSTANCE ScratchCat WITH
           strings <- catStrings, c <- catC, pc <- catPc, out <- catOut,
           capacity <- catCapacity, status <- catStatus
Rows == INSTANCE PasswdRows
Table == INSTANCE NameTable WITH pc <- nmPc, Ids <- ValidIds
Gen == INSTANCE Generators WITH
           file <- files, pc <- genPc, keys <- genKeys, index <- genIndex
Line == INSTANCE LineInfo WITH bytes <- lineBytes
Buf == INSTANCE Buffer WITH
           pc <- bufPc, size <- bufSize, result <- bufResult, MaxLength <- MaxFile
Get == INSTANCE Get WITH pc <- getPc, i <- index, status <- getStatus
Adm == INSTANCE Admin WITH pc <- admPc
Scr == INSTANCE Scratch WITH
           Length <- StringLength, Hash <- HashCode, InitialCapacity <- AreaCapacity,
           Addresses <- Items, holder <- scrHolder, capacity <- areaCapacity,
           content <- areaContent, text <- itemText, pc <- scrPc, arg <- scrArg,
           at <- scrAt, ret <- scrRet
Pw == INSTANCE PasswdCursor WITH
          Names <- UserNames, Uids <- UserIds, file <- pwFile, buffer <- pwBuffer,
          pos <- pwPos, starts <- pwStarts, holder <- pwHolder, pc <- pwPc, at <- pwAt,
          result <- pwResult, seen <- pwSeen

-----------------------------------------------------------------------------
(* What the constants must be.  NULL is no number, no content of a file, no  *)
(* buffer, no result of a read and no text.                                  *)
NotANumber == NULL \notin {-1, 0, 1}

Token == UNION {{Texts[name][n] : n \in DOMAIN Texts[name]} : name \in DOMAIN Texts}

ToolConstants ==
    /\ \A name \in DOMAIN Texts : Texts[name] \in Seq(Token)
    /\ PipeSize \in Nat
    /\ NULL \notin Seq(Token) /\ NotANumber

\* The bytes of a file: the first and the second content, and what extends them.
Bytes == {"o", "n", "+"}
ByteSeqs == Seq(Bytes)

BufferConstants ==
    /\ Size \in Nat \ {0} /\ MaxFile \in Nat
    /\ NULL \notin ByteSeqs /\ NULL \notin [mapped : BOOLEAN, data : ByteSeqs]
    /\ NotANumber

\* The characters of the strings of ScratchCat.
Letters == UNION {Cat!ToSet(string) : string \in UNION {Cat!ToSet(words) : words \in Inputs}}

CatConstants ==
    /\ Inputs \subseteq Seq(Seq(Letters)) /\ Cat!NUL \notin Letters
    /\ InitialCapacity \in Nat \ {0}

RowConstants == Fields \in Nat \ {0} /\ MaxText \in Nat

GenConstants ==
    /\ \A defined \in Files : defined \in Seq(Gen!Name) /\ Gen!IsInjective(defined)
    /\ NULL \notin Gen!Name

GetConstants == Names \in Seq(Words) /\ MaxArgs \in Nat /\ NotANumber

ASSUME ComponentsAssumption ==
    /\ ToolConstants /\ CatConstants /\ RowConstants /\ GenConstants /\ BufferConstants
    /\ GetConstants
    /\ Table!TableOK /\ MaxBytes \in Nat
    /\ Scr!ScratchOK /\ Pw!CursorOK

-----------------------------------------------------------------------------
sumVars == <<command, sumPc, sumStatus, state, tofd, fromfd, sum, sent, sumResult,
             child, heldEnd, input, hashed, output, ignored, printed>>
catVars == <<ispath, catStrings, todo, instr, catC, catPc, catOut, catCapacity, catStatus>>
rowVars == <<text, head, col, starts, lengths, rows>>
nmVars == <<names, nmPc, arg, iter, ret, after>>
genVars == <<files, job, genPc, read, key, genKeys, next, array, genIndex, header, signup,
             asked, answered>>
lineVars == <<lineBytes, pos, begin, end, lino, colno, phase>>
bufVars == <<path, file, replaced, was, bufPc, bufSize, memory, room, offset, buffer,
             bufResult>>
getVars == <<argv, getPc, opts, user, keys, sel, current, index, out, getStatus>>
admVars == <<gidOf, primary, others, changes, own, admPc, uid, sysgrpname, systemGid,
             pwGid, nbgroups, groups, verdict, seen>>
scrVars == <<scrHolder, areaCapacity, areaContent, chains, itemText, scrPc, scrArg, scrAt,
             scrRet>>
pwVars == <<pwFile, mapped, pwBuffer, pwPos, pwStarts, pwHolder, pwPc, want, pwAt,
            pwResult, pwSeen, crashed>>

allVars == <<which, vars, sumVars, catVars, rowVars, nmVars, genVars, lineVars, bufVars,
             getVars, admVars, scrVars, pwVars>>

Fixed(part) == CASE part = "heap" -> UNCHANGED vars
                 [] part = "sum"  -> UNCHANGED sumVars
                 [] part = "cat"  -> UNCHANGED catVars
                 [] part = "rows" -> UNCHANGED rowVars
                 [] part = "name" -> UNCHANGED nmVars
                 [] part = "gen"  -> UNCHANGED genVars
                 [] part = "line" -> UNCHANGED lineVars
                 [] part = "buf"  -> UNCHANGED bufVars
                 [] part = "get"  -> UNCHANGED getVars
                 [] part = "adm"  -> UNCHANGED admVars
                 [] part = "scr"  -> UNCHANGED scrVars
                 [] part = "pw"   -> UNCHANGED pwVars

Parts == {"heap", "sum", "cat", "rows", "name", "gen", "line", "buf", "get", "adm", "scr",
          "pw"}

Only(part) == UNCHANGED which /\ \A p \in Parts \ {part} : Fixed(p)

\* The inputs of the parts that are not picked are left at one value.
ComponentsInit ==
    /\ which \in Parts
    /\ which = "sum" \/ (which # "sum" /\ command = "c" /\ ignored = FALSE)
    /\ which = "cat" \/ (which # "cat" /\ catStrings = <<>> /\ ispath = FALSE)
    /\ which = "rows" \/ (which # "rows" /\ text = <<>>)
    /\ which = "gen" \/ (which # "gen" /\ files = [library |-> <<>>, client |-> <<>>])
    /\ which = "line" \/ (which # "line" /\ lineBytes = <<>> /\ pos = 0)
    /\ which = "buf" \/ (which # "buf" /\ path = NULL)
    /\ which = "get" \/ (which # "get" /\ argv = <<>>)
    /\ \/ which = "adm"
       \/ /\ which # "adm"
          /\ gidOf = [n \in {Variable, Group} |-> NULL]
          /\ primary = [u \in Uids |-> NULL] /\ others = [u \in Uids |-> {}]
    /\ which = "scr" \/ (which # "scr" /\ scrArg = [t \in Threads |-> CHOOSE s \in Strings : TRUE])
    /\ which = "pw" \/ (which # "pw" /\ pwFile = CHOOSE f \in PasswdFiles : TRUE)
    /\ Init /\ Sum!Init /\ Cat!Init /\ Rows!Init /\ Table!Init /\ Gen!Init /\ Line!Init
    /\ Buf!Init /\ Get!Init /\ Adm!Init /\ Scr!Init /\ Pw!Init

ComponentsNext == \/ which = "heap" /\ Next /\ Only("heap")
                  \/ which = "sum" /\ Sum!Next /\ Only("sum")
                  \/ which = "cat" /\ Cat!Next /\ Only("cat")
                  \/ which = "rows" /\ Rows!Next /\ Only("rows")
                  \/ which = "name" /\ Table!Next /\ Only("name")
                  \/ which = "gen" /\ Gen!Next /\ Only("gen")
                  \/ which = "line" /\ Line!Next /\ Only("line")
                  \/ which = "buf" /\ Buf!Next /\ Only("buf")
                  \/ which = "get" /\ Get!Next /\ Only("get")
                  \/ which = "adm" /\ Adm!Next /\ Only("adm")
                  \/ which = "scr" /\ Scr!Next /\ Only("scr")
                  \/ which = "pw" /\ Pw!Next /\ Only("pw")

\* Both processes of a command run; nothing says that the child dies early.
ComponentsSpec ==
    /\ ComponentsInit
    /\ [][ComponentsNext]_allVars
    /\ WF_<<which, sumVars>>(which = "sum" /\ Sum!Toolbox /\ Only("sum"))
    /\ WF_<<which, sumVars>>(which = "sum" /\ Sum!Child /\ Only("sum"))

-----------------------------------------------------------------------------
\* See the modules.
OutputOfAllNames == Sum!OutputOfAllNames
ConcatRight == Cat!ConcatRight
RowsRight == Rows!RowsRight
NeverAnotherName == Table!NeverAnotherName
SettledTable == Table!SettledTable
SignupFixesIds == Gen!SignupFixesIds
InfoRight == Line!InfoRight
BufferWhole == Buf!BufferWhole
GetPrints == Get!GetPrints
AdminVerdict == Adm!AdminVerdict
AreaHolds == Scr!AreaHolds
ChainsSound == Scr!ChainsSound
PoolSpec == Scr!PoolSpec
NoWildRead == Pw!NoWildRead
LookupRight == Pw!LookupRight
NothingLeaks == Pw!NothingLeaks

\* The command ends, or dies of SIGPIPE: the toolbox never waits for a child that
\* waits for it (sha256sum.c:182, toolbox.c:649).
CommandEnds == (which = "sum") ~> (sumPc \in {"exit", "killed"})
=============================================================================
