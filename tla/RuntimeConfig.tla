---------------------------- MODULE RuntimeConfig ----------------------------
(***************************************************************************)
(* KV_Cache/config.py: what load_runtime_config makes of a YAML document.  *)
(*                                                                         *)
(* A YAML value is a tuple that begins with its kind: <<"null">>,          *)
(* <<"bool", b>>, <<"list">>, <<"map", m>> with m a function from keys to  *)
(* values, or <<"text", word, style>>, where style says how the word is    *)
(* written: "plain", or "loose" with capitals and with blanks around it.   *)
(***************************************************************************)
EXTENDS Functions

\* No file there. Any other document is a YAML value.
Missing == <<"missing">>

Kind(v) == v[1]

\* The ValueError of load_runtime_config, a RuntimeError to build_runtime_config.
Refused == [ok |-> FALSE]

Config(kv, device) == [ok |-> TRUE, kvCache |-> kv, targetDevice |-> device]

\* RuntimeConfig(), the field defaults.
DefaultConfig == Config(TRUE, "auto")

-----------------------------------------------------------------------------
(* _normalize_config_data                                                  *)

Without(map, keys) == Restrict(map, DOMAIN map \ keys)

\* `model` is given and is no mapping, nor null, which counts as not given.
ModelMalformed(raw) ==
  "model" \in DOMAIN raw /\ Kind(raw["model"]) \notin {"null", "map"}

Nested(raw) ==
  IF "model" \in DOMAIN raw /\ Kind(raw["model"]) = "map"
    THEN Without(raw["model"][2], {"name", "model_name"})
    ELSE << >>

\* {**below, **top}: the keys of both, with the values of `top` where it has them.
Overlay(top, below) ==
  [k \in DOMAIN top \union DOMAIN below |-> IF k \in DOMAIN top THEN top[k] ELSE below[k]]

\* Mutated form of Merged: the nested values win.
MergedInsideOut(raw) == Overlay(Nested(raw), Without(raw, {"model", "model_name"}))

\* {**model_config, **normalized}: what is said at the top level wins.
Merged(raw) == Overlay(Without(raw, {"model", "model_name"}), Nested(raw))

\* `kv_cache` as a mapping stands for its `enabled`, which it must have.
KvCacheMalformed(map) ==
  /\ "kv_cache" \in DOMAIN map
  /\ Kind(map["kv_cache"]) = "map"
  /\ "enabled" \notin DOMAIN map["kv_cache"][2]

Flattened(map) ==
  IF "kv_cache" \in DOMAIN map /\ Kind(map["kv_cache"]) = "map"
    THEN [map EXCEPT !["kv_cache"] = map["kv_cache"][2]["enabled"]]
    ELSE map

-----------------------------------------------------------------------------
(* RuntimeConfig.model_validate                                            *)

\* pydantic takes a spelled-out truth value for a bool, but strips no blanks.
IsBool(v) ==
  \/ Kind(v) = "bool"
  \/ Kind(v) = "text" /\ v[2] \in {"true", "false"} /\ v[3] = "plain"

AsBool(v) == IF Kind(v) = "bool" THEN v[2] ELSE v[2] = "true"

\* normalize_target_device: value.strip().lower() keeps the word alone, and there
\* must be one.
IsDevice(v) == Kind(v) = "text" /\ v[2] # ""

\* Mutated form of Validate: what is not a field is ignored.
ValidateLeniently(map) ==
  IF \/ "kv_cache" \in DOMAIN map /\ ~IsBool(map["kv_cache"])
     \/ "target_device" \in DOMAIN map /\ ~IsDevice(map["target_device"])
    THEN Refused
    ELSE Config(IF "kv_cache" \in DOMAIN map THEN AsBool(map["kv_cache"]) ELSE TRUE,
                IF "target_device" \in DOMAIN map THEN map["target_device"][2] ELSE "auto")

Validate(map) ==
  CASE DOMAIN map \ {"kv_cache", "target_device"} # {} -> Refused
    [] "kv_cache" \in DOMAIN map /\ ~IsBool(map["kv_cache"]) -> Refused
    [] "target_device" \in DOMAIN map /\ ~IsDevice(map["target_device"]) -> Refused
    [] OTHER ->
         Config(
           IF "kv_cache" \in DOMAIN map
             THEN AsBool(map["kv_cache"]) ELSE DefaultConfig.kvCache,
           IF "target_device" \in DOMAIN map
             THEN map["target_device"][2] ELSE DefaultConfig.targetDevice)

-----------------------------------------------------------------------------
\* An empty file is an empty mapping.
LoadRuntimeConfig(document) ==
  LET raw == IF Kind(document) = "null" THEN << >> ELSE document[2]
  IN  IF \/ Kind(document) \notin {"null", "map"}
         \/ ModelMalformed(raw)
         \/ KvCacheMalformed(Merged(raw))
        THEN Refused
        ELSE Validate(Flattened(Merged(raw)))

=============================================================================
