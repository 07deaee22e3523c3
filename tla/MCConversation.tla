---------------------------- MODULE MCConversation ----------------------------
\* Every reason to refuse a body or a command line, each at its boundary, and
\* streams of up to two chunks, in one-character and empty pieces.
EXTENDS Conversation

MCDefaults ==
    [sizes |-> [block_size |-> 4, max_num_blocks |-> 4, max_batch_size |-> 2,
                max_num_seqs |-> 2, max_model_len |-> 12, max_total_tokens |-> 12],
     threshold |-> 9, tokenizer |-> "simple", path |-> {}, port |-> 1, model |-> "served"]

Bare == [file |-> {}, sizes |-> <<>>, threshold |-> {}, port |-> {}, tokenizer |-> {}]

MCCommandLines ==
    {Bare,
     [Bare EXCEPT !.sizes = [f \in {"max_model_len"} |-> 40]],
     [Bare EXCEPT !.sizes = [f \in {"max_batch_size"} |-> 3]],
     [Bare EXCEPT !.sizes = [f \in {"block_size"} |-> 0]],
     [Bare EXCEPT !.threshold = {NotFinite}],
     [Bare EXCEPT !.threshold = {10}, !.tokenizer = {"file"}],
     [Bare EXCEPT !.file = {MCDefaults}, !.threshold = {9}],
     [Bare EXCEPT !.file = {[MCDefaults EXCEPT !.tokenizer = "hugging_face"]}, !.tokenizer = {"file"}],
     [Bare EXCEPT !.file = {[MCDefaults EXCEPT !.port = 2]}, !.port = {0}]}

Streamed ==
    [kind |-> "completion", malformed |-> FALSE, extra |-> <<>>, chars |-> 3, blank |-> FALSE,
     messages |-> <<>>, model |-> {"served"}, max_tokens |-> {7}, temperature |-> {0},
     top_p |-> {}, stream |-> {TRUE}, stop |-> 0, logprobs |-> {}, n |-> {}]

\* Only one body is streamed: the checks before the stream are the same.
Asked == [Streamed EXCEPT !.stream = {}]

Message(role, chars) == [role |-> role, chars |-> chars]

Chat == [Asked EXCEPT !.kind = "chat", !.messages = <<Message("user", 1)>>, !.max_tokens = {3}]

Extra(name, value) == [Asked EXCEPT !.extra = [x \in {name} |-> value]]

MCBodies ==
    {Streamed, Asked, Chat,
     [Asked EXCEPT !.malformed = TRUE],
     [Asked EXCEPT !.n = {2}],
     [Asked EXCEPT !.n = {0}], [Asked EXCEPT !.n = {4}],
     [Asked EXCEPT !.blank = TRUE],
     [Asked EXCEPT !.chars = 0, !.blank = TRUE],
     [Asked EXCEPT !.chars = 11],
     [Asked EXCEPT !.model = {"other"}],
     [Asked EXCEPT !.max_tokens = {8}], [Asked EXCEPT !.max_tokens = {0}],
     [Asked EXCEPT !.max_tokens = {}],
     [Asked EXCEPT !.temperature = {7}], [Asked EXCEPT !.temperature = {21}],
     [Asked EXCEPT !.top_p = {0}], [Asked EXCEPT !.top_p = {5}],
     [Asked EXCEPT !.stop = 5], [Asked EXCEPT !.logprobs = {6}],
     [Asked EXCEPT !.stop = 4, !.logprobs = {5}, !.n = {3}],
     [Chat EXCEPT !.messages = <<>>],
     [Chat EXCEPT !.messages = <<Message("tool", 1)>>],
     [Chat EXCEPT !.messages = <<Message("system", 0), Message("user", 1)>>],
     Extra("seed", "one"), Extra("echo", "false"), Extra("frequency_penalty", "not_finite"),
     Extra("tools", "empty"), Extra("best_of", "two")}

MCServerKinds ==
    {[foreign |-> FALSE, crlf |-> FALSE, usage |-> TRUE],
     [foreign |-> TRUE, crlf |-> TRUE, usage |-> FALSE]}
=============================================================================
