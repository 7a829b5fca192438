----------------------------- MODULE SigningKey -----------------------------
(***************************************************************************)
(* Ed25519Signer (signing.py): notary processes load their key from a      *)
(* file, or generate it and publish its public half beside it, and sign    *)
(* heads with it; an auditor checks a signature against what is published. *)
(*                                                                         *)
(* A key stands for the pair.  That a signature verifies under its own key *)
(* and head, and no other, is taken from the cryptography library.         *)
(***************************************************************************)
EXTENDS Integers, FiniteSets

CONSTANTS
    Processes,    \* of one notary: restarts, or two by mistake
    Keys,         \* what generate() may draw, each once
    NoFile,
    Torn,         \* what a file holds that was created and not wholly written
    SignedHeads,
    KeyFaults     \* what may go wrong: a subset of {"crash", "disk"}

ASSUME KeyAssumption ==
    /\ NoFile # Torn /\ {NoFile, Torn} \cap Keys = {}
    /\ KeyFaults \subseteq {"crash", "disk"}

VARIABLES
    key_file, pub_file,
    at,           \* per process: where in load_or_generate() it is
    key,          \* per process: the key in memory
    drawn,        \* history: the keys that were generated
    issued,       \* history: the signatures <<key, head>> given out
    found,        \* history: what the file was to a process that chose to generate
    overwrote,    \* history: a process created the file when it was no longer that
    cut           \* history: a write took the beginning of a key only

files == <<key_file, pub_file>>
past == <<found, overwrote, cut>>
keyVars == <<files, at, key, drawn, issued, past>>

-----------------------------------------------------------------------------

Sign(k, h) == <<k, h>>

\* verify_head: False, never an error, when the key is no key.
VerifyHead(pub, h, sig) == pub \in Keys /\ sig = Sign(pub, h)

KeyInit ==
    /\ key_file = NoFile /\ pub_file = NoFile
    /\ at = [p \in Processes |-> "down"]
    /\ key = [p \in Processes |-> NoFile]
    /\ drawn = {} /\ issued = {}
    /\ found = [p \in Processes |-> NoFile] /\ overwrote = FALSE /\ cut = FALSE

Move(p, l) == at' = [at EXCEPT ![p] = l]

GenerateKey(p) ==
    \E k \in Keys \ drawn :
        /\ Move(p, "create")
        /\ key' = [key EXCEPT ![p] = k]
        /\ drawn' = drawn \cup {k}
        /\ found' = [found EXCEPT ![p] = key_file]

\* slip: a file that holds no key counts as a first run
LookForReadableKey(p) ==
    /\ at[p] = "down"
    /\ IF key_file \in Keys
       THEN Move(p, "load") /\ UNCHANGED <<key, drawn, found>>
       ELSE GenerateKey(p)
    /\ UNCHANGED <<files, issued, overwrote, cut>>

\* p.exists(): a file that is there is loaded, else a key is generated.
LookForKey(p) ==
    /\ at[p] = "down"
    /\ IF key_file # NoFile
       THEN Move(p, "load") /\ UNCHANGED <<key, drawn, found>>
       ELSE GenerateKey(p)
    /\ UNCHANGED <<files, issued, overwrote, cut>>

\* What is no PEM of an Ed25519 key is refused, now and at every start.
LoadKey(p) ==
    /\ at[p] = "load"
    /\ IF key_file \in Keys
       THEN Move(p, "up") /\ key' = [key EXCEPT ![p] = key_file]
       ELSE Move(p, "down") /\ UNCHANGED key
    /\ UNCHANGED <<files, drawn, issued, past>>

\* os.open(O_CREAT | O_TRUNC)
CreateKeyFile(p) ==
    /\ at[p] = "create"
    /\ overwrote' = (overwrote \/ key_file # found[p])
    /\ key_file' = Torn
    /\ Move(p, "write")
    /\ UNCHANGED <<pub_file, key, drawn, issued, found, cut>>

WriteKey(p) ==
    /\ at[p] = "write"
    /\ key_file' = key[p]
    /\ Move(p, "publish")
    /\ UNCHANGED <<pub_file, key, drawn, issued, past>>

\* os.write() returns how much it wrote and nobody looks: on a disk that fills up
\* the file takes a beginning of the key, and the process goes on with the whole.
WriteKeyShort(p) ==
    /\ "disk" \in KeyFaults
    /\ at[p] = "write"
    /\ cut' = TRUE
    /\ Move(p, "publish")
    /\ UNCHANGED <<files, key, drawn, issued, found, overwrote>>

\* os.write() finds no room at all.
WriteKeyRaises(p) ==
    /\ "disk" \in KeyFaults
    /\ at[p] = "write"
    /\ Move(p, "down")
    /\ key' = [key EXCEPT ![p] = NoFile]
    /\ UNCHANGED <<files, drawn, issued, past>>

PublishKey(p) ==
    /\ at[p] = "publish"
    /\ pub_file' = key[p]
    /\ Move(p, "up")
    /\ UNCHANGED <<key_file, key, drawn, issued, past>>

\* write_text() raises: the file is empty, or was not opened.
PublishKeyRaises(p) ==
    /\ "disk" \in KeyFaults
    /\ at[p] = "publish"
    /\ pub_file' \in {pub_file, Torn}
    /\ Move(p, "down")
    /\ key' = [key EXCEPT ![p] = NoFile]
    /\ UNCHANGED <<key_file, drawn, issued, past>>

SignHead(p, h) ==
    /\ at[p] = "up"
    /\ issued' = issued \cup {Sign(key[p], h)}
    /\ UNCHANGED <<files, at, key, drawn, past>>

\* The process dies, perhaps between opening the public key's file and writing it.
KillSigner(p) ==
    /\ "crash" \in KeyFaults
    /\ at[p] # "down"
    /\ pub_file' \in {pub_file} \cup (IF at[p] = "publish" THEN {Torn} ELSE {})
    /\ Move(p, "down")
    /\ key' = [key EXCEPT ![p] = NoFile]
    /\ UNCHANGED <<key_file, drawn, issued, past>>

KeyNext ==
    \E p \in Processes :
        \/ LookForKey(p) \/ LoadKey(p)
        \/ CreateKeyFile(p) \/ WriteKey(p) \/ WriteKeyShort(p) \/ WriteKeyRaises(p)
        \/ PublishKey(p) \/ PublishKeyRaises(p)
        \/ KillSigner(p)
        \/ \E h \in SignedHeads : SignHead(p, h)

KeySpec == KeyInit /\ [][KeyNext]_keyVars

-----------------------------------------------------------------------------

\* The notary is one signer for ever: through crashes, full disks and restarts no two
\* keys sign, what is signed verifies under the published key if there is one to read,
\* and the key is on file for the next process; except that a write cut short leaves a
\* file every later start refuses, and that two processes that both found no file may
\* overwrite each other's (signing.py:5-11, 83-92, 110).
OneIdentity ==
    ~ overwrote =>
        \A k \in Keys, h \in SignedHeads :
            Sign(k, h) \in issued =>
                /\ \A l \in Keys, g \in SignedHeads : Sign(l, g) \in issued => l = k
                /\ pub_file \in Keys => VerifyHead(pub_file, h, Sign(k, h))
                /\ key_file = k \/ (cut /\ key_file = Torn)
=============================================================================
