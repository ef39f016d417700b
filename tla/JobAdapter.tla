----------------------------- MODULE JobAdapter -----------------------------
(***************************************************************************)
(* What adapters.py makes of a catalog entry: which adapter it names, what *)
(* is checked of it without running it (fingerprint), whether the server   *)
(* looks ready (preflight), and what a run does.  A request is described   *)
(* by what it has of each field, the box by what the adapter meets there.  *)
(***************************************************************************)
EXTENDS Integers, FiniteSets

(* framework: as written.  command: an argument list, one that is empty     *)
(* ([] or a blank string), a string that is no command line, something      *)
(* else, or none.  prompt, messages: some text, an empty one, or none.      *)
Request == [framework : {"command", "shell", "ollama", "openai", "typo", ""},
            command : {"none", "argv", "empty", "unquoted", "wrong"},
            model : BOOLEAN,
            prompt : {"none", "empty", "text"}, prompt_file : BOOLEAN,
            messages : {"none", "empty", "text"}]

(* file: the prompt file, which may not be there or be no text; exec: what a *)
(* process of the command does, or prints (garbled: no text); listing: of    *)
(* the model server, and post: its answer (value: JSON, but no object)      *)
Box == [file : {"text", "missing", "garbled"},
        exec : {"zero", "nonzero", "not found", "hangs", "garbled"},
        listing : {"down", "unsupported", "error", "unparsable", "empty", "model", "other"},
        post : {"object", "value", "text", "error", "hangs"}]

(* get_adapter: names are aliased, and an unknown one raises *)
Adapter(r) == CASE r.framework \in {"command", "shell"} -> "command"
                [] r.framework \in {"ollama", "openai"} -> r.framework
                [] OTHER -> "unknown"

(* _require: a field that is absent, null or the empty string raises.  A    *)
(* blank command and an empty list are neither.                             *)
Requires(r) == IF Adapter(r) = "command" THEN r.command # "none" ELSE r.model

(* _require, normalize_command: what the entry itself makes them raise, the  *)
(* AdapterError that --check and the executor expect (rejected) or another  *)
(* exception (crashes)                                                      *)
Shape(r) ==
  CASE Adapter(r) = "unknown" \/ ~Requires(r) -> "rejected"
    [] Adapter(r) = "command" /\ r.command = "wrong" -> "rejected"
    [] Adapter(r) = "command" /\ r.command = "unquoted" -> "crashes"
    [] OTHER -> "ok"

(* _resolve_prompt: an inline prompt wins, then the file                     *)
ReadsFile(r) == r.prompt # "text" /\ r.prompt_file
FileText(box) == CASE box.file = "text" -> "prompt_file"
                   [] box.file = "missing" -> "unreadable"
                   [] box.file = "garbled" -> "undecodable"
Prompt(r, box) == CASE r.prompt = "text" -> "prompt"
                    [] ReadsFile(r) -> FileText(box)
                    [] OTHER -> "nothing"

(* fingerprint, which --check asks and the executor: a file that cannot be   *)
(* read is forgiven there, one that is no text is not                       *)
Fingerprinted(r, box) ==
  IF Shape(r) = "ok" /\ Adapter(r) # "command" /\ Prompt(r, box) = "undecodable" THEN "crashes"
  ELSE Shape(r)

(* Mutant: the length is that of the prompt, whatever is sent *)
KeyedByPrompt(r, box) ==
  IF Adapter(r) = "command" THEN "command"
  ELSE IF Prompt(r, box) = "unreadable" THEN "nothing" ELSE Prompt(r, box)

(* _prompt_length: the text whose length goes into the history key.  A      *)
(* prompt, where there is one, comes before the messages.  A command is its  *)
(* own key.                                                                 *)
Keyed(r, box) ==
  IF Adapter(r) = "command" THEN "command"
  ELSE IF r.prompt = "text" \/ r.prompt_file
    THEN IF Prompt(r, box) = "unreadable" THEN "nothing" ELSE Prompt(r, box)
  ELSE IF r.messages = "text" THEN "messages" ELSE "nothing"

(* The payload of a request.  Both backends put the messages before the      *)
(* prompt; with neither, one sends an empty prompt and the other no message. *)
Messages(r) == IF r.messages = "text" THEN "messages" ELSE "nothing"
OllamaSent(r, box) == IF r.messages # "none" THEN Messages(r) ELSE Prompt(r, box)
OpenAISent(r, box) ==
  IF r.messages = "none" /\ (r.prompt # "none" \/ r.prompt_file) THEN Prompt(r, box)
  ELSE Messages(r)
Sent(r, box) == CASE Adapter(r) = "command" -> "command"
                  [] Adapter(r) = "ollama" -> OllamaSent(r, box)
                  [] Adapter(r) = "openai" -> OpenAISent(r, box)

(* preflight: Ollama must list the model; another server need not list any,  *)
(* or know how to list them; a command is always ready                      *)
OllamaReady(r, box) ==
  \/ box.listing = "model"
  \/ ~r.model /\ box.listing \in {"empty", "other", "unparsable"}
OpenAIReady(r, box) ==
  \/ box.listing \in {"unsupported", "unparsable", "empty", "model"}
  \/ ~r.model /\ box.listing = "other"
Ready(r, box) ==
  /\ Adapter(r) = "ollama" => OllamaReady(r, box)
  /\ Adapter(r) = "openai" => OpenAIReady(r, box)

(* run: it is rejected or crashes, it fails, or it succeeds.  Output that is *)
(* no text and an answer that is no object are met by nothing in the         *)
(* adapter; an answer that is no JSON fails.                                *)
CommandRuns(r, box) ==
  CASE r.command = "empty" -> "rejected"
    [] r.command # "empty" /\ box.exec = "zero" -> "success"
    [] r.command # "empty" /\ box.exec = "garbled" -> "crashes"
    [] OTHER -> "error"
ServerRuns(r, box) ==
  CASE Sent(r, box) = "unreadable" -> "rejected"
    [] Sent(r, box) = "undecodable" -> "crashes"
    [] OTHER -> CASE box.post = "object" -> "success"
                  [] box.post = "value" -> "crashes"
                  [] OTHER -> "error"
Runs(r, box) ==
  IF Shape(r) # "ok" THEN Shape(r)
  ELSE IF Adapter(r) = "command" THEN CommandRuns(r, box) ELSE ServerRuns(r, box)
=============================================================================
