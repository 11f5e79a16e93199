----------------------------- MODULE MCMatching -----------------------------
(* Two workers offer machines of every kind the match tells apart.         *)
EXTENDS Matching, DefaultCatalog

Machine(owner, ram, installed, speed) ==
    [owner |-> owner, ram |-> ram, installed |-> installed,
     speed |-> [tag \in installed |-> IF tag = "gemma3:27b" THEN 0 ELSE speed],
     online |-> TRUE, capacity |-> 1, active |-> 0]

(* 22 GB is the floor of a 20 GB model exactly; qwen2.5-coder:32b and      *)
(* deepseek-r1:32b are equally strong; gemma3:27b was never measured.      *)
MCOffers ==
    {Machine("alice", 210, {"gemma3:4b", "gemma3:12b", "qwen2.5-coder:32b"}, 30),
     Machine("bob", 220, {"qwen2.5-coder:32b", "deepseek-r1:32b", "gemma3:27b"}, 30),
     Machine("bob", 160, {"llama3.3:70b", "deepseek-r1:8b", "gemma3:4b"}, 30),
     Machine("bob", 640, {"llama3.3:70b", "phi4:14b"}, 30),
     Machine("bob", 640, {"gemma3:4b"}, 60),
     Machine("bob", 640, {"unlisted:1b"}, 30)}

MCSelectors == QualitySelectors \cup {"gemma3:12b", "deepseek-r1:32b"}

WorkerSymmetry == Permutations(Workers)

=============================================================================
