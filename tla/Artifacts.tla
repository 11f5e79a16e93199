------------------------------ MODULE Artifacts ------------------------------
(***************************************************************************)
(* The files of an answer (artifacts.py): every fenced block of the text   *)
(* becomes a file, named by the block's info line, by the prompt or by its *)
(* language; repeated names are renamed; the files are then written to a   *)
(* directory of the job (create_job_artifacts) or zipped.  The answer grows *)
(* block by block, so that every prefix of it is looked at as an answer.   *)
(*                                                                         *)
(* Abstracted: texts.  A block is its info line and whether it is empty; a *)
(* path is [dir, name, nums], where nums are the "-n" put before the       *)
(* suffix: index-2.html is [dir |-> "", name |-> "index.html",             *)
(* nums |-> <<2>>].  A path _sanitize_relative_path refuses is None.       *)
(***************************************************************************)
EXTENDS Naturals, Sequences, FiniteSets, Functions

CONSTANTS
    None,           \* no path
    InfoPaths,      \* the paths a block's info line may carry
    PromptPaths,    \* the paths a prompt may name
    Languages,      \* of blocks, written on the info line or guessed
    DefaultName,    \* _LANG_DEFAULT_PATHS: language -> file name
    HtmlNames,      \* the names that end in .html
    MaxBlocks       \* bound: blocks of an answer

ASSUME ArtifactsAssumption ==
    /\ IsFiniteSet(PromptPaths)
    /\ \A path \in PromptPaths \cup InfoPaths :
         path # None /\ DOMAIN path = {"dir", "name", "nums"} /\ path.nums \in Seq(Nat)

VARIABLES
    prompt,         \* the paths the prompt names, in order
    document,       \* whether the text holds an HTML document
    answer          \* the blocks of the text

answerVars == <<prompt, document, answer>>

Path(dir, name, nums) == [dir |-> dir, name |-> name, nums |-> nums]

Block == [path : InfoPaths \cup {None}, language : Languages, empty : BOOLEAN]

(* _prompt_paths: each path once. *)
Prompts ==
    {p \in UNION {[1 .. n -> PromptPaths] : n \in 0 .. Cardinality(PromptPaths)} : IsInjective(p)}

-----------------------------------------------------------------------------
(* extract_job_artifacts *)

(* _infer_path, for a block that is not named by the prompt's n-th path.   *)
InferPath(language, i) ==
    IF Len(prompt) = 1 THEN prompt[1]
    ELSE Path("", DefaultName[language], IF i = 1 THEN <<>> ELSE <<i>>)

(* Variant with a bug: the prompt's path goes before the block's own.      *)
PathOfPromptFirst(i) ==
    IF i <= Len(prompt) THEN prompt[i]
    ELSE IF answer[i].path # None THEN answer[i].path
    ELSE InferPath(answer[i].language, i)

(* _path_and_language_from_info: the block's own path, else the prompt's   *)
(* path of the same number, where empty blocks are counted too.            *)
PathOf(i) ==
    IF answer[i].path # None THEN answer[i].path
    ELSE IF i <= Len(prompt) THEN prompt[i]
    ELSE InferPath(answer[i].language, i)

(* The blocks that become files, by their place in the answer. *)
FileBlocks == {i \in DOMAIN answer : ~answer[i].empty}

(* Variant with a bug: a repeated path is kept.                            *)
DedupedRepeated(i) == PathOf(i)

(* _dedupe_paths: the n-th file of a path gets "-n", and loses its         *)
(* directory; the new name is not remembered.                              *)
Deduped(i) ==
    LET path == PathOf(i)
        n == Cardinality({k \in FileBlocks : k <= i /\ PathOf(k) = path})
    IN  IF n = 1 THEN path ELSE Path("", path.name, Append(path.nums, n))

(* _infer_inline_document_path: an answer without blocks may be one page,  *)
(* named by the first page of the prompt.                                  *)
DocumentPath ==
    LET pages == {i \in DOMAIN prompt : prompt[i].name \in HtmlNames}
    IN  IF pages = {} THEN Path("", DefaultName["html"], <<>>)
        ELSE prompt[CHOOSE i \in pages : \A k \in pages : i <= k]

(* The artifacts: block -> path, where 0 is the text itself. *)
Artifacts ==
    IF FileBlocks # {} THEN [i \in FileBlocks |-> Deduped(i)]
    ELSE IF document THEN [i \in {0} |-> DocumentPath]
    ELSE <<>>

(* materialize_artifacts and zip_artifacts: path -> the block whose text   *)
(* it holds.  The files are written in the order of the blocks.            *)
Files ==
    [path \in Range(Artifacts) |->
        CHOOSE i \in DOMAIN Artifacts :
            /\ Artifacts[i] = path
            /\ \A k \in DOMAIN Artifacts : Artifacts[k] = path => k <= i]

-----------------------------------------------------------------------------

AnswerInit ==
    /\ prompt \in Prompts
    /\ document \in BOOLEAN
    /\ answer = <<>>

AppendBlock(block) ==
    /\ Len(answer) < MaxBlocks
    /\ answer' = Append(answer, block)
    /\ UNCHANGED <<prompt, document>>

AnswerNext == \E block \in Block : AppendBlock(block)

AnswerSpec == AnswerInit /\ [][AnswerNext]_answerVars

-----------------------------------------------------------------------------
(* Properties *)

Named == {i \in FileBlocks : answer[i].path # None}

(* A file the answer names is created under exactly that name, whatever    *)
(* the prompt named and the defaults and renamings of other blocks are     *)
(* (artifacts.py:144, 225).                                                *)
NamedFilesExist == {answer[i].path : i \in Named} \subseteq DOMAIN Files

(* An answer that names no file itself loses no block: what the prompt     *)
(* names, the defaults and the renamings of repeated paths never meet      *)
(* (artifacts.py:152-164, 220-233), unless the prompt itself names a path  *)
(* with two numbers, as a renamed default has them.                        *)
UnnamedBlocksSurvive ==
    Named = {} /\ (\A n \in DOMAIN prompt : Len(prompt[n].nums) <= 1) =>
        FileBlocks \subseteq Range(Files)

(* As the page reports them: "Created ${payload.files.length} file(s)":    *)
(* as many files as artifacts.  Refuted: a renamed path may be one another *)
(* block has, and the later block overwrites the file (artifacts.py:229).  *)
CreatedFilesExist == Cardinality(DOMAIN Files) = Cardinality(DOMAIN Artifacts)

=============================================================================
