---------------------------- MODULE MCModelServer ----------------------------
(* ModelServer with three requests in flight together.                     *)
EXTENDS ModelServer

CONSTANTS r1, r2, r3, m1, m2, m3, bad

Ask(route, stream, m, prompt, count) ==
  [route |-> route, stream |-> stream, model |-> m, prompt |-> prompt,
   count |-> count]

Probe == Ask("healthz", FALSE, Blank, "text", 0)
Respond1 == Ask("responses", FALSE, m1, "text", 1)
Complete1 == Ask("completions", FALSE, m1, "text", 2)
Complete2 == Ask("completions", FALSE, m2, "text", 1)
Complete3 == Ask("completions", FALSE, m3, "text", 1)
Stream1 == Ask("completions", TRUE, m1, "text", 2)
Stream2 == Ask("completions", TRUE, m2, "text", 1)

\* What is refused or fails, in each way there is.
Faulty ==
  { Ask("responses", TRUE, m1, "text", 1),
    Ask("responses", FALSE, m1, "unusable", 1),
    Ask("responses", FALSE, Blank, "text", 1),
    Ask("responses", FALSE, bad, "text", 1),
    Ask("completions", FALSE, Blank, "text", 1),
    Ask("completions", TRUE, bad, "text", 1),
    Ask("completions", TRUE, m1, "unusable", 1),
    Ask("completions", FALSE, m1, "empty", 1),
    Ask("completions", TRUE, m1, "text", 0) }

Together(a, b, c) == [r \in Request |-> CASE r = r1 -> a [] r = r2 -> b [] r = r3 -> c]

\* The same model asked for at once, more models than the cache has room for, a
\* stream among them, a probe beside each, and each faulty request in between.
MCWorkload ==
  { Together(Respond1, Complete1, Stream1),
    Together(Respond1, Complete2, Stream1),
    Together(Complete1, Stream2, Probe),
    Together(Respond1, Complete1, Complete2),
    Together(Respond1, Complete2, Complete3),
    Together(Complete1, Respond1, Probe) }
  \union { Together(f, Stream1, Complete2) : f \in Faulty }

=============================================================================
