----------------------------- MODULE Preflight -----------------------------
(***************************************************************************)
(* Preflight: a replica sizes its model to the memory its node has left      *)
(* (preflight/base.py, llama_cpp.py, vllm.py, stable_diffusion_cpp.py).      *)
(*                                                                           *)
(* The models of one node load one at a time, under the node's deploy lease  *)
(* (module DeployLeases); others may be unloaded at any moment.  Memory is   *)
(* counted in a unit of the instance (the code's bytes and MiB), floats are  *)
(* exact: what the code computes with 0.8 and 1.14 is kept in hundredths.    *)
(***************************************************************************)
EXTENDS Integers, Sequences, FiniteSets, FiniteSetsExt, SequencesExt

CONSTANTS
  Nodes,         \* the nodes a behaviour may be about
  Fleets,        \* the sets of models a config may name, a record for each model
  MaxLoads,      \* how many loads a behaviour has
  Alignment, MinCtx, FitMargin,           \* _NCTX_ALIGNMENT, _MIN_NCTX, _FIT_MARGIN_MIB
  BlockSize, MinSeqs, Slack, CpuFixed,    \* _DEFAULT_BLOCK_SIZE, _MIN_MAX_NUM_SEQS,
                                          \* _WINDOW_SLACK_TOKENS, _CPU_OVERHEAD_FIXED_BYTES
  RowCap, TilingBelow, DefaultCtx         \* _MLA_WORKSPACE_ROW_CAP,
                                          \* _VAE_TILING_RAM_THRESHOLD_BYTES, n_ctx unsized

ASSUME PreflightAssumption ==
  /\ {MaxLoads, FitMargin, Slack, CpuFixed, TilingBelow} \subseteq Nat
  /\ {Alignment, MinCtx, BlockSize, MinSeqs, RowCap, DefaultCtx} \subseteq Nat \ {0}
  /\ \A n \in Nodes : /\ n.physical \in Nat \ {0} /\ n.limit \in Nat \cup {-1}
                      /\ {n.others, n.cache, n.vram} \subseteq Nat
  /\ \A models \in Fleets : \A m \in models :
       /\ m.loader \in {"llama_server", "vllm", "stable_diffusion_cpp"} /\ m.share \in 0..100
       /\ m.loader = "llama_server" =>
            /\ {m.weights, m.parallel} \subseteq Nat \ {0}
            /\ {m.counted, m.kv, m.n_ctx, m.trained} \subseteq Nat
       /\ m.loader = "vllm" =>
            /\ m.layers \in Nat \ {0} /\ m.types \in -1..m.layers
            /\ {m.index, m.files, m.bins, m.heads, m.latent, m.dtype, m.window, m.pattern, m.ctx,
                m.state, m.attention, m.seqs, m.default_seqs, m.max_len, m.workspace} \subseteq Nat
       /\ m.loader = "stable_diffusion_cpp" => {m.weights, m.tiled, m.untiled} \subseteq Nat

VARIABLES
  node,    \* the node: memory and which probes work
  fleet,   \* the models of the config
  loaded,  \* what each loaded model holds, and its config
  job,     \* the replica that holds the lease, if any; late: memory was freed after its probe
  loads    \* loads so far

preflightVars == <<node, fleet, loaded, job, loads>>

Least(a, b) == IF a < b THEN a ELSE b
Most(a, b) == IF a > b THEN a ELSE b
NoJob == [step |-> "none"]

UsedRam == SumFunction([i \in DOMAIN loaded |-> loaded[i].ram])
UsedVram == SumFunction([i \in DOMAIN loaded |-> loaded[i].vram])

-----------------------------------------------------------------------------
(* The probes.                                                               *)

Uncapped == -1

\* A host reading of 0: psutil read nothing.
tighter_ram(host, cgroup) ==
  IF cgroup = Uncapped THEN host ELSE IF host <= 0 THEN cgroup ELSE Least(host, cgroup)

detect_ram_bytes == tighter_ram(IF node.psutil THEN node.physical ELSE 0, node.limit)

\* A container whose memory.current cannot be read counts as one without a limit.
UsageRead == node.limit = Uncapped \/ node.current

\* Page cache counts as used, and as reclaimable where memory.stat is readable.
CgroupAvailable ==
  IF node.limit = Uncapped \/ ~node.current THEN Uncapped
  ELSE Most(0, node.limit - (UsedRam + node.cache) + (IF node.stat THEN node.cache ELSE 0))

detect_available_ram_bytes ==
  tighter_ram(IF node.psutil THEN node.physical - node.others - UsedRam ELSE 0, CgroupAvailable)

NoGpu == [total |-> 0, available |-> 0]

\* The GPUs this process owns, with their capacity; the node's own, with their free memory.
torch_cuda_discover == IF node.torch THEN [total |-> node.vram, available |-> node.vram] ELSE NoGpu
pynvml_node_discover ==
  IF node.nvml THEN [total |-> node.vram, available |-> node.vram - UsedVram] ELSE NoGpu

join_nvml_free(gpu) ==
  IF gpu # NoGpu /\ node.nvml THEN [gpu EXCEPT !.available = pynvml_node_discover.available] ELSE gpu

detect_gpus(read_free) ==
  LET own == IF read_free THEN join_nvml_free(torch_cuda_discover) ELSE torch_cuda_discover
  IN IF own # NoGpu THEN own ELSE pynvml_node_discover

discover_hardware(read_free) ==
  [ram |-> detect_ram_bytes, available |-> detect_available_ram_bytes, gpu |-> detect_gpus(read_free)]

sizing_ram_bytes(hw) == IF hw.available # 0 THEN hw.available ELSE hw.ram

-----------------------------------------------------------------------------
(* llama_server: `llama fit-params` answers with a context length.           *)

Declined == [fit |-> "declined"]
NotSized == [fit |-> "refused"]

\* A share of the GPU in hundredths, num_gpus; 0 a CPU deploy, 100 the whole.
Fractional(m) == m.share > 0 /\ m.share < 100
gpu_share_bytes(m, gpu) == (m.share * gpu.total) \div 100

\* Mutant: the declared share is not looked at.
mut_fit_margin(m, hw) == FitMargin

fit_margin(m, hw) ==
  IF ~Fractional(m) \/ hw.gpu.total = 0 THEN FitMargin
  ELSE Most(FitMargin, hw.gpu.available - gpu_share_bytes(m, hw.gpu) + FitMargin)

\* Mutant: the budget is taken from all RAM.
mut_cpu_ram_budget(hw) == Most(0, (100 * hw.ram - (5 * hw.ram + 100 * FitMargin)) \div 100)

cpu_ram_budget(hw) ==
  Most(0, (100 * sizing_ram_bytes(hw) - (5 * hw.ram + 100 * FitMargin)) \div 100)

Budgeted(m, hw) == m.share = 0 /\ sizing_ram_bytes(hw) # 0

\* The weights that fit-params' own estimate leaves out.
Uncounted(m) == Most(0, m.weights - m.counted)

cpu_fit_margin(m, hw) ==
  Most(FitMargin, node.physical - cpu_ram_budget(hw) + Uncounted(m))

Holds(m, ctx) == m.weights + m.kv * ctx

\* fit-params: the context lengths for which its estimate leaves the margin of what it sees.
Fitting(m, estimate, leaves) ==
  {c \in (IF m.n_ctx # 0 THEN {m.n_ctx * m.parallel} ELSE MinCtx..(m.trained * m.parallel)) :
     estimate + m.kv * c <= leaves}

PerSlot(m, ctx) == ((ctx \div m.parallel) \div Alignment) * Alignment

\* Layers that do not fit a GPU stay on the host, with the smallest context.
run_fit(m, sees, margin) ==
  LET leaves  == sees - margin
      fitting == Fitting(m, IF m.share = 0 THEN m.counted ELSE m.weights, leaves)
      ctx     == IF fitting # {} THEN Max(fitting) ELSE MinCtx * m.parallel
  IN IF \/ ~m.answers \/ PerSlot(m, ctx) < MinCtx
        \/ fitting = {} /\ (m.share = 0 \/ leaves <= 0)
     THEN [fit |-> "error"]
     ELSE [fit |-> "sized", n_ctx |-> PerSlot(m, ctx), leaves |-> leaves]

AllPinned(m) == m.n_ctx # 0 /\ m.pinned

LlamaServerPreflight(m, hw) ==
  IF ~m.gguf \/ (AllPinned(m) /\ ~Budgeted(m, hw)) THEN Declined
  ELSE LET rec == IF Budgeted(m, hw) THEN run_fit(m, node.physical, cpu_fit_margin(m, hw))
                  ELSE run_fit(m, IF m.share = 0 THEN node.physical ELSE node.vram - UsedVram,
                                fit_margin(m, hw))
       IN IF rec.fit # "error" THEN rec ELSE IF Budgeted(m, hw) THEN NotSized ELSE Declined

-----------------------------------------------------------------------------
(* vllm: bytes per token, sliding windows, recurrent state.                  *)

estimate_weight_footprint(m) ==
  IF m.index # 0 \/ m.files # 0 THEN Most(m.index, m.files) ELSE m.bins

\* Bytes per token of one layer: K and V of every head, or MLA's shared latent.
KvPerLayer(m) ==
  (IF m.latent # 0 THEN m.latent ELSE 2 * m.heads) * (IF m.fp8 THEN 1 ELSE m.dtype)

\* The sliding layers are those layer_types names, or all but every pattern-th, or all.
resolve_sliding_window(m) ==
  LET sliding == IF m.types # -1 THEN m.types
                 ELSE IF m.pattern > 0 THEN m.layers - m.layers \div m.pattern ELSE m.layers
  IN [full |-> m.layers - sliding, sliding |-> sliding, window |-> m.window]

Slides(m) == m.window # 0 /\ m.slides /\ m.state = 0 /\ resolve_sliding_window(m).sliding > 0

\* In hundredths, as the budget is.
PerLayer(m) == 100 * KvPerLayer(m)

seq_kv_bytes(m, len) ==
  IF ~Slides(m) THEN PerLayer(m) * m.layers * len
  ELSE LET s == resolve_sliding_window(m)
       IN PerLayer(m) * (s.full * len + s.sliding * Least(s.window + Slack, len))

\* Mutant: the slack is left out of the window.
mut_fit_len_with_sliding(m, budget, cap) ==
  LET s    == resolve_sliding_window(m)
      full == PerLayer(m) * s.full
      both == PerLayer(m) * (s.full + s.sliding)
  IN IF budget < both * s.window THEN Least(budget \div both, cap)
     ELSE IF full <= 0 THEN cap
     ELSE Least((budget - PerLayer(m) * s.sliding * s.window) \div full, cap)

fit_len_with_sliding(m, budget, cap) ==
  LET s       == resolve_sliding_window(m)
      full    == PerLayer(m) * s.full
      sliding == PerLayer(m) * s.sliding
      window  == s.window + Slack
  IN IF budget < (full + sliding) * window THEN Least(budget \div (full + sliding), cap)
     ELSE IF full <= 0 THEN cap
     ELSE Least((budget - sliding * window) \div full, cap)

Aligned(tokens) == (tokens \div BlockSize) * BlockSize

\* Weights, their overhead of 14 %, and the fixed part.
Base(m) == 114 * estimate_weight_footprint(m) + 100 * CpuFixed
kv_budget(m, hw) == 80 * sizing_ram_bytes(hw) - Base(m)
CtxCap(m) == IF m.ctx # 0 THEN m.ctx ELSE DefaultCtx

\* Ten-thousandths of RAM, rounded to thousandths: at least 1 %, at most 90 %.
cpu_gmu(reservation, ram) ==
  10 * Least(Most((10 * reservation + (ram \div 2)) \div ram, 10), 900)

\* Attention layers alone hold a token's KV in a hybrid.
HybridKv(m) == PerLayer(m) * m.attention

FitLen(m, budget, target) ==
  LET tokens == IF HybridKv(m) > 0 THEN budget \div HybridKv(m) ELSE 0
  IN Least(Aligned(tokens), target)

NoFit == [len |-> 0, seqs |-> 0]

apply_hybrid_fit(m, pool, target) ==
  LET seqs   == IF m.seqs # 0 THEN m.seqs ELSE MinSeqs
      budget == pool - 100 * m.state * seqs
      len    == IF m.seqs = 0 /\ budget >= target * HybridKv(m) THEN target
                ELSE FitLen(m, budget, target)
      extra  == (budget - len * HybridKv(m)) \div (100 * m.state)
      whole  == m.seqs = 0 /\ budget >= target * HybridKv(m)
  IN IF budget <= 0 \/ (~whole /\ len < BlockSize) THEN NoFit
     ELSE [len  |-> len,
           seqs |-> IF m.seqs # 0 THEN m.seqs
                    ELSE Least(m.default_seqs, MinSeqs + Most(extra, 0))]

Target(m) == IF m.max_len # 0 THEN m.max_len ELSE CtxCap(m)

Suggested(m, hw) ==
  LET budget == kv_budget(m, hw)
      tokens == IF Slides(m) THEN fit_len_with_sliding(m, budget, CtxCap(m))
                ELSE budget \div (PerLayer(m) * m.layers)
  IN Least(Aligned(tokens), CtxCap(m))

\* What is to be reserved, in hundredths: the base, and KV for at most four full sequences.
CpuReservation(m, hw) ==
  Base(m) + Least(kv_budget(m, hw), 4 * seq_kv_bytes(m, Suggested(m, hw)))

HybridReservation(m, hw) ==
  LET fit   == apply_hybrid_fit(m, kv_budget(m, hw), Target(m))
      state == 100 * m.state * fit.seqs
  IN Base(m) + state + Most(0, Least(kv_budget(m, hw) - state, 4 * HybridKv(m) * fit.len))

\* The fraction of RAM, with the length it is computed for: vllm is given the fraction and, of a hybrid,
\* the number of sequences, and fits its own length to them.
recommend_cpu(m, hw) ==
  IF KvPerLayer(m) = 0 \/ hw.ram <= 0 \/ kv_budget(m, hw) <= 0 THEN Declined
  ELSE IF m.state # 0
  THEN LET fit == apply_hybrid_fit(m, kv_budget(m, hw), Target(m))
       IN IF fit = NoFit THEN Declined
          ELSE [fit |-> "sized", gmu |-> cpu_gmu(HybridReservation(m, hw), hw.ram),
                seqs |-> fit.seqs, len |-> fit.len]
  ELSE IF Suggested(m, hw) < BlockSize THEN Declined
  ELSE [fit |-> "sized", gmu |-> cpu_gmu(CpuReservation(m, hw), hw.ram),
        seqs |-> 0, len |-> Suggested(m, hw)]

\* MLA's prefill workspace, outside the pool that gpu_memory_utilization bounds.
Workspace(m) ==
  LET pages == (IF m.seqs # 0 THEN m.seqs ELSE m.default_seqs) * BlockSize
      rows  == Most(Least(Most(8 * Target(m), 4 * pages), RowCap), pages)
  IN rows * m.workspace

PrefillWorkspace(m) == IF m.latent # 0 /\ ~m.eager THEN Workspace(m) ELSE 0

\* In ten-thousandths.
default_gpu_memory_utilization(m) == IF m.share = 0 THEN 4000 ELSE 9000

\* A fractional num_gpus, the share Ray reserved, wins over the recommendation.
resolve_gpu_memory_utilization(m, rec) ==
  IF Fractional(m) THEN 100 * m.share
  ELSE IF rec.fit = "sized" THEN rec.gmu ELSE default_gpu_memory_utilization(m)

mla_gpu_memory_utilization(m, hw) ==
  Most(resolve_gpu_memory_utilization(m, Declined)
         - (11000 * Workspace(m) + (hw.gpu.total \div 2)) \div hw.gpu.total, 100)

\* Its other advice (max_num_seqs of a hybrid, max_num_batched_tokens) does not change what vllm takes.
recommend_gpu(m, hw) ==
  IF m.latent = 0 \/ m.eager \/ hw.gpu.total = 0 THEN Declined
  ELSE [fit |-> "sized", gmu |-> mla_gpu_memory_utilization(m, hw)]

\* Branches on the reservation: the probe may report GPUs the deploy was not given.
VllmPreflight(m, hw) == IF m.share = 0 THEN recommend_cpu(m, hw) ELSE recommend_gpu(m, hw)

-----------------------------------------------------------------------------
(* Loads.                                                                    *)

StableDiffusionCppPreflight(hw) ==
  IF hw.ram > 0 /\ sizing_ram_bytes(hw) < TilingBelow THEN [fit |-> "sized", tiling |-> TRUE]
  ELSE Declined

run_preflight(m, hw) ==
  IF ~m.preflight THEN Declined
  ELSE CASE m.loader = "llama_server" -> LlamaServerPreflight(m, hw)
         [] m.loader = "vllm" -> VllmPreflight(m, hw)
         [] m.loader = "stable_diffusion_cpp" -> StableDiffusionCppPreflight(hw)

PreflightInit == node \in Nodes /\ fleet \in Fleets /\ loaded = <<>> /\ job = NoJob /\ loads = 0

Shares == SumFunction([i \in DOMAIN loaded |-> loaded[i].m.share])

\* The replica has its GPU share from Ray and the lease; its loader's constructor reads the
\* hardware.
Probes(m) ==
  /\ job = NoJob /\ loads < MaxLoads /\ loads' = loads + 1 /\ Shares + m.share <= 100
  /\ job' = [step |-> "probed", m |-> m, hw |-> discover_hardware(m.loader = "llama_server"),
             late |-> FALSE]
  /\ UNCHANGED <<node, fleet, loaded>>

\* The estimator; a model that could not be sized fails its load.
Sizes ==
  /\ job.step = "probed"
  /\ LET rec == run_preflight(job.m, job.hw)
     IN job' = IF rec = NotSized THEN NoJob
               ELSE [step |-> "sized", m |-> job.m, hw |-> job.hw, late |-> job.late, rec |-> rec]
  /\ UNCHANGED <<node, fleet, loaded, loads>>

\* A user's n_ctx wins over the recommended one.
MergedCtx(m, rec) ==
  IF m.n_ctx # 0 THEN m.n_ctx ELSE IF rec.fit = "sized" THEN rec.n_ctx ELSE DefaultCtx

RamFree == Least(node.physical - node.others - UsedRam,
                 IF node.limit = Uncapped THEN node.physical ELSE node.limit - UsedRam)

\* What the loader takes, by the engines' own rules: llama-server its weights and context (on a
\* GPU, as much as fits the margin), vllm its fraction of the whole.
Takes(m, hw, rec) ==
  CASE m.loader = "llama_server" ->
         LET need == Holds(m, MergedCtx(m, rec) * m.parallel)
         IN IF m.share = 0 THEN [ram |-> need, vram |-> 0]
            ELSE [ram |-> 0, vram |-> IF rec.fit = "sized" THEN Least(need, rec.leaves) ELSE need]
    [] m.loader = "vllm" ->
         LET gmu == resolve_gpu_memory_utilization(m, rec)
         IN IF m.share = 0 THEN [ram |-> (gmu * hw.ram) \div 10000, vram |-> 0]
            ELSE [ram |-> 0, vram |-> (gmu * node.vram) \div 10000 + PrefillWorkspace(m)]
    [] m.loader = "stable_diffusion_cpp" ->
         [ram |-> m.weights + (IF rec.fit = "sized" THEN m.tiled ELSE m.untiled), vram |-> 0]

\* Whether the loader was given a fraction to keep to.
KeepsShare(m, rec) ==
  Fractional(m) /\ IF m.loader = "vllm" THEN m.latent = 0 ELSE rec.fit = "sized"

\* The engine starts; one that finds too little memory raises and its replica ends.
Loads ==
  /\ job.step = "sized" /\ job' = NoJob
  /\ LET takes == Takes(job.m, job.hw, job.rec)
     IN loaded' = IF takes.ram <= RamFree /\ takes.vram <= node.vram - UsedVram
                  THEN Append(loaded, [ram |-> takes.ram, vram |-> takes.vram, m |-> job.m,
                                        kept |-> ~job.late /\ KeepsShare(job.m, job.rec)])
                  ELSE loaded
  /\ UNCHANGED <<node, fleet, loads>>

\* A replica of another deploy stops, perhaps after the hardware was read.
Unloads ==
  /\ \E i \in DOMAIN loaded : loaded' = RemoveAt(loaded, i)
  /\ job' = IF job.step = "probed" THEN [job EXCEPT !.late = TRUE] ELSE job
  /\ UNCHANGED <<node, fleet, loads>>

PreflightNext == (\E m \in fleet : Probes(m)) \/ Sizes \/ Loads \/ Unloads
PreflightSpec == PreflightInit /\ [][PreflightNext]_preflightVars

-----------------------------------------------------------------------------
Sized == job.step = "sized" /\ job.rec.fit = "sized"
Sizing(loader) == Sized /\ job.m.loader = loader

(* A llama_server model on the CPU is "sized against what the ones loaded     *)
(* before it left" (docs/model-configuration.md:460): after any loads and     *)
(* unloads, a model that was sized leaves the reserve of 5 % of the RAM and    *)
(* the margin free (llama_cpp.py, _cpu_ram_budget_mib, _cpu_fit_margin_mib),   *)
(* in the container, if its usage can be read, and on the host.  Where free    *)
(* memory reads 0, which sizing_ram_bytes takes for unread, it does not hold.  *)
SizedLoadsFit ==
  [][Sizing("llama_server") /\ job' = NoJob /\ job.m.share = 0 /\ job.hw.available > 0 =>
       LET after == 100 * UsedRam' + 5 * job.hw.ram + 100 * FitMargin
       IN /\ node.limit # Uncapped /\ node.current => after <= 100 * node.limit
          /\ node.psutil => after + 100 * node.others <= 100 * node.physical]_preflightVars

(* Fractions of a GPU that sum to at most 0.9 can be loaded in any order      *)
(* (docs/model-configuration.md:240): a vllm model finds its whole fraction    *)
(* free, because llama_server models were fitted into theirs (llama_cpp.py,    *)
(* _fit_margin_mib).  Not with MLA, whose workspace resolve_gpu_memory_        *)
(* utilization leaves no room for, nor when memory was freed between the       *)
(* probe and the fit, which then gives away the freed memory too, nor where   *)
(* neither probe sees the GPU.                                                 *)
SharesFit ==
  /\ job.step = "sized" /\ job.m.loader = "vllm" /\ Fractional(job.m) /\ job.m.latent = 0
  /\ Shares + job.m.share <= 90 /\ (node.torch \/ node.nvml)
  /\ \A i \in DOMAIN loaded : loaded[i].m.share > 0 => loaded[i].kept
  => Takes(job.m, job.hw, job.rec).vram <= node.vram - UsedVram

(* What vllm's fraction of RAM on a CPU is computed for is the most that fits: *)
(* no longer context (up to a block) and no further sequence fits the budget,  *)
(* what was chosen does, and, unless the usage of a limited container is unread, *)
(* the fraction of RAM, up to its rounding, covers the weights and one         *)
(* sequence of that length yet stays within 80 % of what is free, if 2 % are   *)
(* (preflight/vllm.py, _recommend_cpu_auto_gmu, _apply_hybrid_fit;             *)
(* _sliding_window.py, fit_len_with_sliding).                                  *)
LargestFit ==
  Sizing("vllm") /\ job.m.share = 0 =>
    LET m      == job.m
        rec    == job.rec
        budget == kv_budget(m, job.hw)
        used   == IF m.state = 0 THEN seq_kv_bytes(m, rec.len)
                  ELSE 100 * m.state * rec.seqs + HybridKv(m) * rec.len
        more   == IF m.state = 0 THEN seq_kv_bytes(m, rec.len + BlockSize)
                  ELSE 100 * m.state * (IF m.seqs # 0 THEN m.seqs ELSE MinSeqs)
                         + HybridKv(m) * (rec.len + BlockSize)
        cap    == IF m.state = 0 THEN CtxCap(m) ELSE Target(m)
        ram    == job.hw.ram
        takes  == rec.gmu * ram  \* in ten-thousandths
    IN /\ used <= budget
       /\ rec.len <= cap
       /\ rec.len + BlockSize <= cap => more > budget
       /\ m.state # 0 /\ m.seqs = 0 /\ rec.seqs < m.default_seqs => used + 100 * m.state > budget
       /\ UsageRead => takes + 5 * ram >= 100 * (Base(m) + used)
       /\ 50 * job.hw.available >= ram =>
            takes <= 8000 * job.hw.available + 5 * ram
=============================================================================
