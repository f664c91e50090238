---------------------------- MODULE MCSideBySide ----------------------------
(* Instances of the three parts: one model with every kind of replica-count  *)
(* change; nodes with and without each probe, a memory limit, and fleets of  *)
(* each loader; requests of each kind, with two choices.                     *)
EXTENDS SideBySide

Fixed(n) == [auto |-> FALSE, min |-> n, max |-> n]
Auto(lo, hi) == [auto |-> TRUE, min |-> lo, max |-> hi]
RichScalings == {Fixed(1), Fixed(2), Auto(1, 2)}

MCNodes ==
  [physical : {40}, limit : {-1, 30}, others : {6}, cache : {3}, stat : {TRUE}, current : BOOLEAN,
   psutil : BOOLEAN, nvml : BOOLEAN, torch : BOOLEAN, vram : {100}]

LlamaCpu ==
  [loader : {"llama_server"}, share : {0}, weights : {9}, counted : {6, 9}, kv : {1},
   parallel : {1, 2}, n_ctx : {0, 6}, pinned : {TRUE}, trained : {10}, gguf : {TRUE},
   answers : BOOLEAN, preflight : BOOLEAN]
LlamaGpu ==
  [loader : {"llama_server"}, share : {30, 60}, weights : {20}, counted : {20}, kv : {2},
   parallel : {1}, n_ctx : {0}, pinned : {FALSE}, trained : {30}, gguf : {TRUE},
   answers : {TRUE}, preflight : {TRUE}]
VllmBase ==
  [loader |-> "vllm", share |-> 0, index |-> 0, files |-> 6, bins |-> 0, heads |-> 1,
   latent |-> 0, dtype |-> 1, fp8 |-> FALSE, layers |-> 3, window |-> 0, types |-> -1,
   slides |-> TRUE, pattern |-> 0,
   ctx |-> 7, state |-> 0, attention |-> 3, seqs |-> 0, default_seqs |-> 4, max_len |-> 0,
   workspace |-> 1, eager |-> FALSE, preflight |-> TRUE]
VllmCpu ==
  {[VllmBase EXCEPT !.window = w, !.pattern = p, !.ctx = c, !.files = f, !.bins = 5, !.dtype = d] :
     w \in {0, 2}, p \in {0, 2}, c \in {0, 7}, f \in {0, 2}, d \in {1, 2}}
    \cup {[VllmBase EXCEPT !.window = 2, !.types = t, !.slides = s, !.files = 2] :
            t \in {0, 2}, s \in BOOLEAN}
VllmHybrid ==
  {[VllmBase EXCEPT !.state = st, !.attention = a, !.seqs = q, !.files = 2, !.max_len = l] :
     st \in {1, 2}, a \in 0..2, q \in {0, 3}, l \in {0, 3}}
VllmGpu ==
  {[VllmBase EXCEPT !.share = sh, !.latent = l, !.workspace = 2] :
     sh \in {30, 60, 100}, l \in {0, 1}}
Sd ==
  [loader : {"stable_diffusion_cpp"}, share : {0}, weights : {5}, tiled : {2}, untiled : {8},
   preflight : {TRUE}]
OneLlama == CHOOSE l \in LlamaCpu : l.answers /\ l.preflight /\ l.n_ctx = 0 /\ l.parallel = 1

MCFleets ==
  {LlamaCpu, LlamaGpu \cup VllmGpu, Sd \cup {OneLlama}}
    \cup {{OneLlama, v} : v \in VllmCpu \cup VllmHybrid}

Texts ==
  {<<"word">>, <<"word", "close", "word">>, <<"word", "close", "call">>, <<"word", "call">>,
   <<"close", "word", "call">>, <<"word", "word", "close">>}
BaseAsk ==
  [op |-> "chat", model |-> "served", loader |-> "vllm", stream |-> TRUE, thinks |-> TRUE,
   parses |-> TRUE, named |-> FALSE, usage |-> TRUE, unfit |-> FALSE,
   text |-> [i \in ChoiceIds |-> <<"word">>]]
MCAsks ==
  {[BaseAsk EXCEPT !.text = f] : f \in [ChoiceIds -> Texts]}
    \cup {[BaseAsk EXCEPT !.text = [i \in ChoiceIds |-> <<"word", "close", "call">>], !.named = n,
                          !.thinks = h, !.parses = p, !.stream = s, !.usage = ~n] :
            n \in BOOLEAN, h \in BOOLEAN, p \in BOOLEAN, s \in BOOLEAN}
    \cup {[BaseAsk EXCEPT !.loader = "llama_server", !.stream = s, !.usage = u] :
            s \in BOOLEAN, u \in BOOLEAN}
    \cup {[BaseAsk EXCEPT !.op = "compact", !.stream = FALSE, !.unfit = u, !.usage = FALSE] : u \in BOOLEAN}
    \cup {[BaseAsk EXCEPT !.op = o, !.loader = "other", !.stream = s, !.unfit = u, !.usage = FALSE] :
            o \in {"transcription", "translation"}, s \in BOOLEAN, u \in BOOLEAN}
    \cup {[BaseAsk EXCEPT !.op = "response", !.loader = "other", !.stream = FALSE, !.unfit = u,
                          !.usage = FALSE, !.model = m] :
            u \in BOOLEAN, m \in {"served", "expected", "unknown"}}
    \cup {[BaseAsk EXCEPT !.op = "speech", !.loader = "other", !.stream = s, !.usage = FALSE] : s \in BOOLEAN}
    \cup {[BaseAsk EXCEPT !.op = o, !.loader = "other", !.stream = FALSE, !.usage = FALSE] :
            o \in {"embedding", "image", "image_edit", "image_variation"}}
=============================================================================
