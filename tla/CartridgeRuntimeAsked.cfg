\* Three adapters, loaded, selected, disabled and asked for in any order: the
\* one asked for does not always answer.
SPECIFICATION CartSpec
CONSTANT Cartridges = {"a", "b", "c"}
INVARIANT AskedAnswers
