--------------------------- MODULE DefaultCatalog ---------------------------
(***************************************************************************)
(* DEFAULT_OLLAMA_MODELS (catalog.py): VRAM floor, quality, pricing rank   *)
(* (tier_1_small = 1 ... tier_4_reasoning = 4) and strength of each model. *)
(***************************************************************************)
EXTENDS Integers, TLC

Model(vram, quality, rank, strength) ==
    [vram |-> vram, quality |-> quality, rank |-> rank, strength |-> strength]

GemmaToDeepseekModels ==
    "gemma4:26b" :> Model(17, "best", 3, 94) @@
    "gemma3:4b" :> Model(4, "good", 1, 48) @@
    "gemma3:12b" :> Model(9, "better", 2, 82) @@
    "gemma3:27b" :> Model(18, "best", 3, 93) @@
    "qwen3:4b" :> Model(4, "good", 1, 42) @@
    "qwen3:8b" :> Model(6, "better", 2, 79) @@
    "qwen3:14b" :> Model(10, "better", 2, 86) @@
    "qwen3:30b" :> Model(20, "best", 3, 97) @@
    "qwen3:32b" :> Model(20, "best", 3, 96) @@
    "qwen3:235b" :> Model(144, "best", 4, 99) @@
    "glm4:9b" :> Model(8, "better", 2, 74) @@
    "deepseek-r1:8b" :> Model(8, "best", 4, 76) @@
    "deepseek-r1:14b" :> Model(10, "best", 4, 89) @@
    "deepseek-r1:32b" :> Model(20, "best", 4, 95) @@
    "deepseek-r1:70b" :> Model(48, "best", 4, 98) @@
    "deepseek-r1:671b" :> Model(405, "best", 4, 100)

GptOssToPhiModels ==
    "gpt-oss:20b" :> Model(16, "best", 3, 96) @@
    "gpt-oss:120b" :> Model(80, "best", 4, 99) @@
    "llama3.1:8b" :> Model(8, "better", 2, 71) @@
    "llama3.3:70b" :> Model(48, "best", 4, 97) @@
    "mistral:7b" :> Model(8, "better", 2, 64) @@
    "mistral-small3.1:24b" :> Model(16, "best", 3, 92) @@
    "mistral-small3.2:24b" :> Model(16, "best", 3, 93) @@
    "devstral:24b" :> Model(16, "best", 3, 95) @@
    "qwen2.5:7b" :> Model(8, "better", 2, 66) @@
    "qwen2.5:72b" :> Model(48, "best", 4, 94) @@
    "qwen2.5-coder:7b" :> Model(8, "better", 2, 80) @@
    "qwen2.5-coder:14b" :> Model(10, "best", 3, 88) @@
    "qwen2.5-coder:32b" :> Model(20, "best", 3, 95) @@
    "phi4:14b" :> Model(16, "best", 3, 88) @@
    "phi4-reasoning:14b" :> Model(12, "best", 4, 91)

DefaultModels == GemmaToDeepseekModels @@ GptOssToPhiModels

=============================================================================
