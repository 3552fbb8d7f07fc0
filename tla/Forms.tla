------------------------------- MODULE Forms -------------------------------
(***************************************************************************)
(* The direct commands (orchestrator._DISPATCH): eighteen tables of forms, *)
(* the first that claims a text runs its tool.  Four lists are kept beside *)
(* them by hand, of what a personal account may not and may have run       *)
(* (access.py), of what autopilot may run (autopilot.py), and of what help *)
(* and an agent's prompt offer.  A text is its words, "x" being any other, *)
(* "x.csv" one that names a table.  A word in brackets stands for texts    *)
(* that a pattern claims.                                                  *)
(***************************************************************************)
EXTENDS Naturals, Sequences, FiniteSets, SequencesExt

\* What a tool does: tells what anyone may know, or keeps and tells what is the account's own
\* (reminders, lists, facts, documents made for it); shows what is the owner's or the
\* laptop's, shows and indexes it, changes it, or starts what acts on its own.
Deeds == {"answer", "keeps", "owner", "indexes", "acts", "alone"}

\* A branch of a dispatcher: the texts it claims whole, and those it claims the beginning of.
Rule(tool, does, whole, heads) == [tool |-> tool, does |-> does, whole |-> whole, heads |-> heads]
Each(S) == {<<w>> : w \in S}
Verb(v, S) == {<<v, w>> : w \in S}
-----------------------------------------------------------------------------
\* The tables, in their order.
MetaTable == <<
  Rule("help", "answer", Each({"help", "/help"}), {}),
  Rule("vault memory", "acts", {}, {<<"remember","note">>}),
  Rule("learn", "keeps", {<<"learn","from","chat">>}, {}),
  Rule("remember", "keeps", {}, Each({"remember"})),
  Rule("forget", "keeps", {}, Each({"forget"})),
  Rule("memory", "answer", Each({"memory"}) \cup {<<"show","memory">>}, {}),
  Rule("audit", "owner", Each({"audit"}) \cup {<<"show","audit">>}, {}),
  Rule("briefing", "owner", Each({"briefing"}) \cup {<<"daily","briefing">>, <<"status","briefing">>,
      <<"morning","briefing">>}, {}),
  Rule("briefing format", "owner", Verb("briefing", {"format", "settings"}), {}),
  Rule("briefing change", "acts", Verb("briefing", {"reset", "default"}), Verb("briefing", {"set",
      "add", "remove"}))>>

JobsTable == <<
  Rule("jobs", "owner", Each({"jobs"}) \cup Verb("job", {"list", "tracker"}) \cup {<<"list","jobs">>}, {}),
  Rule("jobright", "acts", Each({"jobright"}) \cup Verb("jobright", {"pull", "sync"}) \cup
      Verb("pull", {"jobs", "jobright"}), {}),
  Rule("tailor", "acts", {}, {<<"tailor","job">>}),
  Rule("resume", "acts", {}, {<<"resume","file">>}),
  Rule("job edit", "acts", {}, Verb("job", {"add", "stage", "remove", "delete"}))>>

AutomationTable == <<
  Rule("plugins", "owner", Each({"plugins"}), {}),
  Rule("plugin", "acts", {}, Each({"plugin"})),
  Rule("autopilot status", "owner", {<<"autopilot","status">>, <<"autonomous","status">>}, {}),
  Rule("autopilot workflow", "alone", {}, {<<"autopilot","workflow">>}),
  Rule("autopilot", "alone", {}, Each({"autopilot"})),
  Rule("reminders", "answer", Each({"reminders"}) \cup {<<"reminders","list">>, <<"show","reminders">>},
      {<<"reminders","on">>}),
  Rule("reminders due", "answer", {<<"reminders","due">>, <<"due","reminders">>,
      <<"show","due","reminders">>}, {}),
  Rule("reminders next", "answer", {<<"reminders","next">>, <<"reminders","next","alarm">>,
      <<"reminders","next","timer">>}, {}),
  Rule("reminder add", "keeps", {}, {<<"reminder","add">>, <<"remind","me">>}),
  Rule("reminder edit", "keeps", Verb("reminder", {"done", "stop", "snooze", "delete", "cancel",
      "remove"}), Verb("reminder", {"done", "move", "delete", "cancel", "remove", "stop", "snooze"})),
  Rule("timers", "answer", Each({"timers", "alarms"}), Each({"timers"})),
  Rule("timer", "keeps", Each({"timer", "alarm"}), Each({"timer", "alarm"})),
  Rule("schedules", "owner", Each({"schedule", "schedules"}) \cup {<<"schedule","list">>,
      <<"show","schedule">>}, {}),
  Rule("run due", "alone", {<<"schedule","tick">>, <<"schedule","run","due">>,
      <<"run","due","schedules">>}, {}),
  Rule("schedule remove", "acts", {}, {<<"schedule","remove">>}),
  Rule("schedule agent", "alone", {}, {<<"schedule","agent">>}),
  Rule("schedule add", "alone", {}, Each({"schedule"})),
  Rule("agent runs", "owner", Verb("agent", {"runs", "history", "last", "status"}) \cup
      {<<"autonomous","runs">>, <<"last","agent","run">>}, {}),
  Rule("agent run", "alone", {}, {<<"agent","run">>}),
  Rule("control room", "owner", Each({"agents"}) \cup Verb("agent", {"control", "dashboard"}) \cup
      {<<"control","room">>}, Each({"agent"}))>>

FilesTable == <<
  Rule("undo", "acts", {<<"undo","file">>, <<"undo","file","move">>, <<"undo","file","copy">>,
      <<"undo","file","rename">>}, {}),
  Rule("file change", "acts", {}, Verb("file", {"move", "copy", "rename", "delete"})),
  Rule("scan files", "owner", {}, {<<"scan","files">>}),
  Rule("read file", "owner", {}, {<<"read","file">>, <<"ask","file">>}),
  Rule("summarize", "indexes", {}, {<<"summarize","file">>}),
  Rule("extract", "owner", {}, {<<"extract","text">>}),
  Rule("index file", "acts", {}, {<<"index","file">>})>>

KnowledgeTable == <<
  Rule("documents", "owner", Each({"knowledge"}) \cup {<<"knowledge","list">>}, {}),
  Rule("knowledge stats", "owner", Verb("knowledge", {"stats", "status"}), {}),
  Rule("knowledge export", "acts", {}, {<<"knowledge","export">>}),
  Rule("reindex", "acts", Verb("knowledge", {"reindex", "backfill"}) \cup {<<"reindex","knowledge">>}, {}),
  Rule("prune", "acts", {<<"knowledge","prune">>, <<"prune","knowledge">>}, {}),
  Rule("knowledge forget", "acts", {}, {<<"knowledge","forget">>}),
  Rule("knowledge clear", "acts", {<<"knowledge","clear">>, <<"forget","knowledge">>}, {}),
  Rule("knowledge", "owner", {}, Each({"recall"}) \cup {<<"knowledge","search">>, <<"ask","knowledge">>,
      <<"answer","from","knowledge">>})>>

VaultTable == <<
  Rule("vault status", "owner", Each({"notes", "vault", "obsidian"}) \cup {<<"notes","status">>,
      <<"vault","status">>, <<"obsidian","status">>}, {}),
  Rule("notes", "owner", {<<"notes","list">>, <<"list","notes">>}, {}),
  Rule("note search", "owner", {}, {<<"notes","search">>, <<"note","search">>}),
  Rule("vault audit", "owner", Verb("audit", {"notes", "vault"}) \cup {<<"notes","audit">>,
      <<"vault","audit">>}, {}),
  Rule("ask vault", "owner", {}, Verb("ask", {"vault", "notes"})),
  Rule("read note", "owner", {}, {<<"read","note">>}),
  Rule("save note", "acts", {}, {<<"save","note">>})>>

FileIntelligenceTable == <<
  Rule("file info", "owner", {}, {<<"file","info">>}),
  Rule("tables", "owner", {}, {<<"extract","tables">>}),
  Rule("spreadsheet", "owner", {}, {<<"analyze","spreadsheet">>, <<"analyse","spreadsheet">>}),
  Rule("inspect", "owner", {}, {<<"inspect","file">>}),
  Rule("process", "acts", {}, {<<"process","file">>}),
  Rule("ocr", "owner", {}, Each({"ocr"}) \cup {<<"ocr","image">>}),
  Rule("forecast", "owner", {}, {<<"forecast">>}),
  Rule("diagnostics", "owner", {}, Each({"anomalies", "outliers"}) \cup
      {<<"what","drives">>, <<"drivers","of">>, <<"unusual","values">>}),
  Rule("breakdown", "owner", {}, {}),
  Rule("record", "acts", Each({"record"}) \cup {<<"record","(seconds)">>}, {}),
  Rule("transcribe", "owner", {}, Each({"transcribe"}))>>

VisionTable == <<
  Rule("screen", "owner", {<<"read","screen">>, <<"screen","text">>, <<"what","is","on","my","screen">>,
      <<"what's","on","my","screen">>, <<"look","at","my","screen">>}, {<<"read","screen">>,
      <<"look","at","screen">>}),
  Rule("picture", "owner", {}, Verb("describe", {"image", "video"}) \cup {<<"watch","video">>,
      <<"look","at","image">>}),
  Rule("webcam", "owner", Each({"webcam"}) \cup {<<"describe","webcam">>, <<"look","at","webcam">>,
      <<"what","do","you","see">>, <<"look","at","me">>}, {<<"describe","webcam">>,
      <<"look","at","webcam">>}),
  Rule("capture", "acts", {<<"capture","webcam">>, <<"webcam","capture">>, <<"take","a","photo">>}, {})>>

TasksTable == <<
  Rule("code", "acts", {}, Verb("code", {"run", "fix"})),
  Rule("tasks", "owner", Each({"tasks"}) \cup {<<"task","dashboard">>, <<"show","tasks">>}, {}),
  Rule("workflow status", "owner", Each({"workflows"}) \cup Verb("workflow", {"status", "dashboard"}), {}),
  Rule("workflow retry", "alone", {<<"workflow","retry","failed">>, <<"retry","failed","workflow">>}, {}),
  Rule("workflow", "alone", {}, Each({"workflow"})),
  Rule("convert file", "acts", {}, {<<"convert","file">>}),
  Rule("organize", "acts", {}, {<<"organize","folder">>}),
  Rule("search files", "owner", {}, {<<"search","files">>})>>

ResearchTable == <<
  Rule("mcp", "owner", Each({"mcp"}), {}),
  Rule("mcp call", "acts", {}, Each({"mcp"})),
  Rule("save report", "acts", {}, {<<"save","research","report">>}),
  Rule("advise", "answer", {}, {<<"advise","me","on">>}),
  Rule("solve", "answer", {}, Each({"solve", "advise", "strategize", "strategise"})),
  Rule("report", "answer", {}, {<<"research","report">>}),
  Rule("research", "answer", {}, Each({"research"}))>>

UtilitiesTable == <<
  Rule("watches", "owner", Each({"watches"}), {}),
  Rule("watch", "alone", {<<"watch","health">>, <<"watch","check","health">>}, {<<"watch","news">>,
      <<"watch","check","news">>}),
  Rule("unwatch", "acts", {}, Each({"unwatch"})),
  Rule("timecard", "owner", Each({"timecard"}), Each({"timecard"})),
  Rule("clock", "answer", Each({"time", "date", "clock", "today", "datetime"}) \cup
      {<<"current","time">>, <<"what","time","is","it">>, <<"what","is","the","time">>,
      <<"what","day","is","it">>}, Each({"time", "date", "clock"})),
  Rule("capabilities", "answer", Each({"capabilities"}) \cup {<<"what","can","you","do">>}, {}),
  Rule("failures", "owner", Each({"failures", "errors"}) \cup {<<"what","broke">>,
      <<"recent","errors">>}, {}),
  Rule("selfcheck", "owner", Each({"selfcheck", "self-check", "diagnose"}) \cup {<<"self","check">>,
      <<"check","yourself">>, <<"does","everything","work">>}, {}),
  Rule("calculator", "answer", {}, Each({"calculate", "calc", "compute"})),
  Rule("latency", "owner", Each({"latency", "traces", "speed"}) \cup {<<"why","slow">>}, {})>>

GenerateTable == <<
  Rule("news", "answer", Each({"news"}), Each({"news"})),
  Rule("document", "keeps", {}, Each({"document"})),
  Rule("workspace", "acts", {}, Each({"workspace"})),
  Rule("image", "keeps", {}, Each({"image"})),
  Rule("weather", "answer", Each({"weather", "forecast"}) \cup Verb("weather", {"here", "forecast"})
      \cup {<<"local","weather">>}, Each({"weather"})),
  Rule("translate", "answer", {}, Each({"translate"}))>>

TravelTable == <<
  Rule("distance", "answer", {}, Each({"distance", "trip"})),
  Rule("around", "answer", {}, Each({"around"})),
  Rule("here", "answer", {<<"my","location">>, <<"locate","me">>, <<"where","am","i">>,
      <<"where","am","i?">>, <<"what's","my","location">>}, {}),
  Rule("map", "answer", {}, Each({"map"})),
  Rule("places", "answer", {}, Each({"nearby"}) \cup Verb("hotels", {"near", "in"}))>>

WebTable == <<
  Rule("youtube", "answer", {}, {<<"summarize","youtube">>, <<"youtube","summary">>}),
  Rule("web search", "answer", {}, {<<"web","search">>, <<"search","web">>}),
  Rule("message", "acts", {}, Each({"message"})),
  Rule("open url", "acts", {}, {<<"open","url">>}),
  Rule("download", "acts", {}, Each({"download"})),
  Rule("inspect page", "owner", {}, Verb("inspect", {"page", "forms"})),
  Rule("form", "acts", {}, {<<"fill","form">>, <<"preview","form","fill">>})>>

DesktopTable == <<
  Rule("system", "acts", Each({"brightness"}) \cup Verb("power", {"sleep", "shutdown", "restart",
      "cancel"}) \cup {<<"lock","screen">>}, Each({"brightness", "wallpaper"})),
  Rule("processes", "owner", Each({"processes"}), {}),
  Rule("end process", "acts", {}, {<<"end","process">>}),
  Rule("settings", "acts", Each({"settings"}), Each({"settings"})),
  Rule("windows", "owner", Each({"windows"}) \cup {<<"list","windows">>, <<"show","windows">>,
      <<"what","windows","are","open">>}, {}),
  Rule("arrange", "acts", Each({"window", "split", "snap", "arrange"}), Each({"window", "windows",
      "split", "snap", "arrange"})),
  Rule("open app", "acts", {}, {<<"open","app">>}),
  Rule("screenshot", "acts", Each({"screenshot"}) \cup {<<"take","screenshot">>, <<"screen","shot">>,
      <<"take","a","screenshot">>}, Each({"screenshot"})),
  Rule("keys type", "acts", {}, {<<"keys","type">>}),
  Rule("keys", "acts", {}, Each({"keys"})),
  Rule("terminal", "acts", {}, Each({"terminal", "shell"}) \cup {<<"run","command">>}),
  Rule("clipboard", "owner", Each({"clipboard"}), {<<"clipboard","ask">>}),
  Rule("clipboard copy", "acts", {}, {<<"clipboard","copy">>}),
  Rule("music", "acts", {}, Each({"media"}) \cup {<<"play","music">>})>>

EmailTable == <<
  Rule("digest", "owner", {<<"email","digest">>, <<"summarize","inbox">>, <<"inbox","digest">>,
      <<"summarize","my","inbox">>, <<"summarize","my","emails">>, <<"summarize","my","unread">>},
      {<<"email","digest">>}),
  Rule("inbox", "owner", {<<"email","unread">>}, Verb("email", {"search", "unread"})),
  Rule("mail search", "owner", {}, {<<"email","api","search">>, <<"email","api","unread">>}),
  Rule("mail draft", "acts", {}, {<<"email","api","draft">>}),
  Rule("mail send", "acts", {}, {<<"email","api","send">>}),
  Rule("oauth", "owner", {<<"email","oauth">>, <<"email","oauth","status">>},
      {<<"email","oauth","url">>}),
  Rule("oauth change", "acts", {}, {<<"email","oauth","exchange">>, <<"email","oauth","refresh">>,
      <<"email","oauth","forget">>}),
  Rule("tokens", "owner", {<<"email","tokens">>, <<"email","token","status">>,
      <<"email","tokens","status">>}, {}),
  Rule("email", "acts", {}, Each({"email"})),
  Rule("send email", "acts", {}, {<<"send","email">>})>>

BatchTable == <<
  Rule("apply", "acts", {}, {<<"plan","apply","job">>}),
  Rule("retry tasks", "alone", {<<"multi","retry","failed">>, <<"retry","failed","tasks">>,
      <<"retry","failed","subtasks">>}, {}),
  Rule("multi", "alone", {}, Each({"multi"}))>>

PersonalTable == <<
  Rule("lists", "answer", Each({"lists"}) \cup {<<"my","lists">>, <<"show","lists">>,
      <<"show","my","lists">>}, {}),
  Rule("list", "keeps", {}, Each({"list"})),
  Rule("bare list", "answer", {}, {}), Rule("which list", "answer", {<<"(which list)">>}, {}),
  Rule("fact", "answer", {<<"(fact)">>}, {}), Rule("draw", "answer", {<<"(draw)">>}, {}),
  Rule("calendar", "answer", Each({"calendar", "agenda"}) \cup Verb("my", {"calendar", "agenda"}), {}),
  Rule("calendar add", "keeps", {}, {<<"calendar","add">>}),
  Rule("system status", "answer", Each({"status", "battery"}) \cup {<<"system","status">>,
      <<"disk","space">>, <<"computer","status">>}, {}),
  Rule("convert", "answer", {}, Each({"convert"})),
  Rule("how long", "answer", {<<"(how long left)">>}, {}),
  Rule("nameless list", "keeps", {<<"(list edit)">>}, {}), Rule("date", "answer", {<<"(date)">>}, {})>>

-----------------------------------------------------------------------------
\* What the lists beside them say (access.py, help_text, _AGENT_COMMANDS, autopilot.py).
DevWhole ==
  Each({"clipboard", "audit", "briefing", "timecard", "failures", "errors", "selfcheck", "self-check",
   "diagnose", "latency", "traces", "speed", "watches", "schedule", "schedules", "agents", "tasks",
   "plugins", "workflows", "jobs", "jobright", "notes", "vault", "obsidian", "knowledge", "mcp",
   "webcam", "windows", "window", "split", "snap", "arrange", "screenshot", "record", "brightness",
   "processes", "settings"}) \cup Verb("show", {"audit", "schedule", "tasks", "windows"}) \cup
   Verb("briefing", {"format", "settings", "reset", "default"}) \cup Verb("autonomous", {"status",
   "runs"}) \cup Verb("schedule", {"list", "tick"}) \cup Verb("agent", {"runs", "history", "last",
   "status", "control", "dashboard"}) \cup Verb("workflow", {"status", "dashboard"}) \cup
   Verb("job", {"list", "tracker"}) \cup Verb("list", {"jobs", "notes", "windows"}) \cup
   Verb("jobright", {"pull", "sync"}) \cup Verb("pull", {"jobs", "jobright"}) \cup
   Verb("notes", {"status", "list", "audit"}) \cup Verb("vault", {"status", "audit"}) \cup
   Verb("audit", {"notes", "vault"}) \cup Verb("knowledge", {"list", "stats", "status", "reindex",
   "backfill", "prune", "clear"}) \cup Verb("email", {"digest", "oauth", "tokens"}) \cup
   Verb("screen", {"text", "shot"}) \cup Verb("power", {"sleep", "shutdown", "restart", "cancel"}) \cup
   {<<"daily","briefing">>, <<"status","briefing">>, <<"morning","briefing">>, <<"what","broke">>,
   <<"recent","errors">>, <<"self","check">>, <<"check","yourself">>, <<"why","slow">>,
   <<"watch","health">>, <<"autopilot","status">>, <<"control","room">>, <<"task","dashboard">>,
   <<"obsidian","status">>, <<"reindex","knowledge">>, <<"prune","knowledge">>,
   <<"forget","knowledge">>, <<"undo","file">>, <<"summarize","inbox">>, <<"inbox","digest">>,
   <<"read","screen">>, <<"describe","webcam">>, <<"capture","webcam">>, <<"webcam","capture">>,
   <<"take","screenshot">>, <<"lock","screen">>, <<"does","everything","work">>,
   <<"watch","check","health">>, <<"schedule","run","due">>, <<"run","due","schedules">>,
   <<"last","agent","run">>, <<"workflow","retry","failed">>, <<"retry","failed","workflow">>,
   <<"multi","retry","failed">>, <<"retry","failed","tasks">>, <<"retry","failed","subtasks">>,
   <<"undo","file","move">>, <<"undo","file","copy">>, <<"undo","file","rename">>,
   <<"summarize","my","inbox">>, <<"summarize","my","emails">>, <<"summarize","my","unread">>,
   <<"email","oauth","status">>, <<"email","token","status">>, <<"email","tokens","status">>,
   <<"what","is","on","my","screen">>, <<"what's","on","my","screen">>, <<"look","at","my","screen">>,
   <<"look","at","webcam">>, <<"what","do","you","see">>, <<"look","at","me">>, <<"take","a","photo">>,
   <<"what","windows","are","open">>, <<"take","a","screenshot">>}

DevHeads ==
  Each({"timecard", "autopilot", "schedule", "agent", "workflow", "multi", "plugin", "unwatch", "keys",
   "recall", "email", "ocr", "transcribe", "mcp", "download", "brightness", "wallpaper", "settings",
   "window", "windows", "split", "snap", "arrange", "screenshot", "message", "terminal", "shell",
   "media", "workspace"}) \cup Verb("briefing", {"set", "add", "remove"}) \cup Verb("watch", {"news",
   "video"}) \cup Verb("job", {"add", "stage", "remove", "delete"}) \cup Verb("ask", {"vault", "notes",
   "knowledge", "file"}) \cup Verb("read", {"note", "file", "screen"}) \cup Verb("knowledge", {"export",
   "forget", "search"}) \cup Verb("code", {"run", "fix"}) \cup Verb("extract", {"text", "tables"}) \cup
   Verb("file", {"info", "move", "copy", "rename", "delete"}) \cup Verb("clipboard", {"copy", "ask"})
   \cup Verb("inspect", {"file", "page", "forms"}) \cup Verb("describe", {"image", "video", "webcam"})
   \cup Verb("open", {"url", "app"}) \cup {<<"tailor","job">>, <<"resume","file">>,
   <<"remember","note">>, <<"notes","search">>, <<"note","search">>, <<"save","note">>,
   <<"send","email">>, <<"scan","files">>, <<"summarize","file">>, <<"index","file">>,
   <<"analyze","spreadsheet">>, <<"analyse","spreadsheet">>, <<"process","file">>, <<"convert","file">>,
   <<"organize","folder">>, <<"search","files">>, <<"fill","form">>, <<"end","process">>,
   <<"run","command">>, <<"play","music">>, <<"plan","apply","job">>, <<"watch","check","news">>,
   <<"answer","from","knowledge">>, <<"save","research","report">>, <<"look","at","screen">>,
   <<"look","at","image">>, <<"look","at","webcam">>, <<"preview","form","fill">>}

EverydayWhole ==
  Each({"help", "/help", "memory", "reminders", "timers", "timer", "alarms", "alarm", "time", "date",
   "clock", "today", "datetime", "capabilities", "news", "weather", "forecast", "lists", "calendar",
   "agenda", "status", "battery"}) \cup Verb("show", {"memory", "reminders", "lists"}) \cup
   Verb("reminders", {"list", "due", "next"}) \cup Verb("reminder", {"done", "stop", "snooze"}) \cup
   Verb("weather", {"here", "forecast"}) \cup Verb("my", {"location", "lists", "calendar", "agenda"})
   \cup {<<"due","reminders">>, <<"current","time">>, <<"local","weather">>, <<"locate","me">>,
   <<"system","status">>, <<"disk","space">>, <<"computer","status">>, <<"learn","from","chat">>,
   <<"show","due","reminders">>, <<"reminders","next","alarm">>, <<"reminders","next","timer">>,
   <<"what","time","is","it">>, <<"what","is","the","time">>, <<"what","day","is","it">>,
   <<"what","can","you","do">>, <<"where","am","i">>, <<"where","am","i?">>,
   <<"what's","my","location">>, <<"show","my","lists">>}

EverydayHeads ==
  Each({"remember", "forget", "timer", "timers", "alarm", "solve", "advise", "strategize", "strategise",
   "research", "time", "date", "clock", "calculate", "calc", "compute", "news", "document", "image",
   "weather", "translate", "distance", "trip", "around", "map", "nearby", "list", "convert"}) \cup
   Verb("reminder", {"add", "done", "stop", "snooze", "move"}) \cup Verb("hotels", {"near", "in"}) \cup
   {<<"remind","me">>, <<"reminders","on">>, <<"research","report">>, <<"summarize","youtube">>,
   <<"youtube","summary">>, <<"web","search">>, <<"search","web">>, <<"calendar","add">>,
   <<"advise","me","on">>}

HelpOffers ==
  Each({"windows", "memory", "audit", "briefing", "jobs", "reminders", "timers", "lists", "calendar",
   "(date)", "(draw)", "(fact)", "screenshot", "agents", "clipboard", "news", "watches", "time", "date",
   "failures", "plugins", "latency", "mcp", "brightness", "processes", "tasks"}) \cup
   Verb("knowledge", {"prune", "list", "stats", "reindex"}) \cup Verb("briefing", {"format", "reset"})
   \cup Verb("autopilot", {"x", "status"}) \cup Verb("agent", {"runs", "last", "x"}) \cup
   Verb("schedule", {"x", "list"}) \cup Verb("reminders", {"due", "next"}) \cup Verb("notes", {"status",
   "list", "audit"}) \cup Verb("power", {"sleep", "shutdown", "restart", "cancel"}) \cup
   Verb("email", {"unread", "digest", "x"}) \cup Verb("workflow", {"x", "status"}) \cup
   {<<"remember","x">>, <<"forget","x">>, <<"window","x">>, <<"reminder","snooze">>, <<"timer","x">>,
   <<"alarm","x">>, <<"system","status">>, <<"convert","x">>, <<"forecast","x.csv">>,
   <<"(totals)","x.csv">>, <<"anomalies","x.csv">>, <<"record","(seconds)">>, <<"transcribe","x">>,
   <<"read","screen">>, <<"recall","x">>, <<"undo","file">>, <<"news","x">>, <<"watch","health">>,
   <<"unwatch","x">>, <<"image","x">>, <<"document","x">>, <<"workspace","x">>, <<"time","x">>,
   <<"calculate","x">>, <<"plugin","x">>, <<"weather","x">>, <<"translate","x">>, <<"distance","x">>,
   <<"trip","x">>, <<"nearby","x">>, <<"around","x">>, <<"map","x">>, <<"research","x">>, <<"mcp","x">>,
   <<"solve","x">>, <<"message","x">>, <<"download","x">>, <<"screenshot","x">>, <<"keys","x">>,
   <<"media","x">>, <<"lock","screen">>, <<"brightness","x">>, <<"wallpaper","x">>, <<"settings","x">>,
   <<"multi","x">>, <<"briefing","set","x">>, <<"briefing","add","x">>, <<"briefing","remove","x">>,
   <<"job","add","x">>, <<"job","stage","x">>, <<"job","remove","x">>, <<"autopilot","workflow","x">>,
   <<"agent","run","x">>, <<"schedule","agent","x">>, <<"schedule","remove","x">>,
   <<"schedule","run","due">>, <<"remind","me","x">>, <<"reminders","next","alarm">>,
   <<"reminder","done","x">>, <<"reminder","delete","x">>, <<"reminder","stop","x">>,
   <<"list","x","show">>, <<"list","x","add","x">>, <<"list","x","remove","x">>, <<"list","x","clear">>,
   <<"calendar","add","x">>, <<"scan","files","x">>, <<"read","file","x">>, <<"ask","file","x">>,
   <<"summarize","file","x">>, <<"extract","text","x">>, <<"file","info","x">>,
   <<"extract","tables","x">>, <<"analyze","spreadsheet","x">>, <<"what","drives","x.csv">>,
   <<"process","file","x">>, <<"convert","file","x">>, <<"organize","folder","x">>,
   <<"ocr","image","x">>, <<"describe","image","x">>, <<"describe","video","x">>,
   <<"look","at","webcam">>, <<"index","file","x">>, <<"ask","knowledge","x">>,
   <<"knowledge","export","x">>, <<"knowledge","forget","x">>, <<"notes","search","x">>,
   <<"ask","vault","x">>, <<"read","note","x">>, <<"save","note","x">>, <<"remember","note","x">>,
   <<"learn","from","chat">>, <<"search","files","x">>, <<"file","move","x">>, <<"file","copy","x">>,
   <<"file","rename","x">>, <<"file","delete","x">>, <<"web","search","x">>, <<"clipboard","copy","x">>,
   <<"clipboard","ask","x">>, <<"watch","news","x">>, <<"hotels","near","x">>, <<"where","am","i">>,
   <<"summarize","youtube","x">>, <<"research","report","x">>, <<"save","research","report","x">>,
   <<"open","url","x">>, <<"inspect","page","x">>, <<"inspect","forms","x">>,
   <<"preview","form","fill","x">>, <<"fill","form","x">>, <<"open","app","x">>, <<"keys","type","x">>,
   <<"run","command","x">>, <<"code","run","x">>, <<"code","fix","x">>, <<"play","music","x">>,
   <<"end","process","x">>, <<"email","search","x">>, <<"email","api","search","x">>,
   <<"email","api","unread","x">>, <<"email","api","draft","x">>, <<"email","api","send","x">>,
   <<"email","oauth","status">>, <<"email","oauth","url","x">>, <<"email","oauth","exchange","x">>,
   <<"email","oauth","refresh","x">>, <<"email","oauth","forget","x">>, <<"email","tokens","status">>,
   <<"send","email","x">>, <<"plan","apply","job","x">>, <<"multi","retry","failed">>,
   <<"workflow","retry","failed">>}

AgentOffers ==
  Each({"windows", "watches", "mcp", "briefing", "jobs", "tasks", "timers", "alarms", "lists",
   "calendar", "memory", "audit"}) \cup Verb("knowledge", {"list", "stats", "prune"}) \cup
   {<<"undo","file">>, <<"recall","x">>, <<"notes","audit">>, <<"remember","x">>, <<"forget","x">>,
   <<"window","x">>, <<"news","x">>, <<"watch","health">>, <<"unwatch","x">>, <<"image","x">>,
   <<"document","x">>, <<"workspace","x">>, <<"weather","x">>, <<"translate","x">>, <<"distance","x">>,
   <<"trip","x">>, <<"around","x">>, <<"map","x">>, <<"research","x">>, <<"mcp","x">>, <<"solve","x">>,
   <<"message","x">>, <<"download","x">>, <<"screenshot","x">>, <<"email","digest">>,
   <<"(totals)","x.csv">>, <<"reminders","due">>, <<"timer","x">>, <<"alarm","x">>, <<"convert","x">>,
   <<"scan","files","x">>, <<"read","file","x">>, <<"ask","file","x">>, <<"summarize","file","x">>,
   <<"extract","text","x">>, <<"extract","tables","x">>, <<"analyze","spreadsheet","x">>,
   <<"process","file","x">>, <<"file","info","x">>, <<"search","files","x">>, <<"file","move","x">>,
   <<"file","copy","x">>, <<"file","rename","x">>, <<"file","delete","x">>, <<"convert","file","x">>,
   <<"organize","folder","x">>, <<"index","file","x">>, <<"ask","knowledge","x">>,
   <<"notes","search","x">>, <<"ask","vault","x">>, <<"read","note","x">>, <<"save","note","x">>,
   <<"learn","from","chat">>, <<"web","search","x">>, <<"watch","news","x">>, <<"hotels","near","x">>,
   <<"summarize","youtube","x">>, <<"research","report","x">>, <<"open","url","x">>,
   <<"inspect","page","x">>, <<"read","screen","x">>, <<"describe","image","x">>,
   <<"describe","video","x">>, <<"look","at","webcam","x">>, <<"open","app","x">>,
   <<"play","music","x">>, <<"email","api","search","x">>, <<"email","api","draft","x">>,
   <<"email","api","send","x">>, <<"briefing","set","x">>, <<"job","add","x">>,
   <<"reminder","add","x">>, <<"list","x","show">>, <<"list","x","add","x">>, <<"run","command","x">>,
   <<"code","run","x">>, <<"code","fix","x">>}

SafeWhole ==
  Each({"help", "memory", "audit", "agents", "briefing", "reminders", "tasks", "knowledge"}) \cup
   Verb("knowledge", {"list", "stats"}) \cup Verb("agent", {"runs", "last"}) \cup
   {<<"workflow","status">>, <<"reminders","due">>}
SafeHeads ==
  Each({"recall"}) \cup {<<"ask","knowledge">>, <<"scan","files">>, <<"read","file">>,
   <<"summarize","file">>, <<"extract","text">>, <<"file","info">>, <<"extract","tables">>}

\* AutopilotPlanner.plan: what it makes of a goal.
AutopilotPlans ==
  {<<"briefing">>, <<"reminders","due">>, <<"tasks">>, <<"agents">>, <<"knowledge","stats">>,
   <<"scan","files","x">>, <<"workflow","status">>, <<"audit">>, <<"knowledge","list">>, <<"memory">>}

\* The words a command begins with that begin a sentence as often.
ProseProne ==
  {"window", "windows", "split", "snap", "arrange", "schedule", "email", "time", "date", "watch",
   "unwatch", "clock", "weather", "news", "distance", "trip", "download", "forget", "remember",
   "brightness", "wallpaper", "settings", "processes", "research", "image", "document", "map",
   "workflow", "autopilot", "calculate", "calc", "keys", "compute", "recall", "agent", "terminal",
   "shell", "media", "timer", "alarm", "remind", "clipboard", "plugin", "translate", "workspace"}
-----------------------------------------------------------------------------
Rules ==
  MetaTable \o JobsTable \o AutomationTable \o FilesTable \o KnowledgeTable \o VaultTable \o
  FileIntelligenceTable \o VisionTable \o TasksTable \o ResearchTable \o UtilitiesTable \o GenerateTable \o
  TravelTable \o WebTable \o DesktopTable \o EmailTable \o BatchTable \o PersonalTable

Beginnings(t) == {SubSeq(t, 1, k) : k \in 1..(Len(t) - 1)}
Within(t, whole, heads) == t \in whole \/ Beginnings(t) \cap heads # {}
NamesTable(t) == Last(t) = "x.csv"
BareList(t) == Len(t) \in {2, 3} /\ Last(t) = "list"

Claims(r, t) ==
  \/ /\ Within(t, r.whole, r.heads)
     /\ r.tool \in {"forecast", "diagnostics"} => NamesTable(t)
     /\ r.tool = "forget" => t # <<"forget","knowledge">>
  \/ r.tool = "breakdown" /\ NamesTable(t)
  \/ r.tool = "bare list" /\ BareList(t)

\* A branch may look further and leave the text to those below it.
MayDecline(r) == r.tool \in {"breakdown", "list", "bare list", "fact", "around", "convert", "how long", "date"}

Claiming(t) == {i \in DOMAIN Rules : Claims(Rules[i], t)}
\* Those that may be the first to take it.
Takers(t) == LET c == Claiming(t) IN {Rules[i] : i \in {j \in c : \A k \in c : k < j => MayDecline(Rules[k])}}
NoneTakes(t) == \A i \in Claiming(t) : MayDecline(Rules[i])
-----------------------------------------------------------------------------
WholeForms == UNION {r.whole : r \in ToSet(Rules)} \cup DevWhole \cup EverydayWhole \cup SafeWhole
HeadForms == UNION {r.heads : r \in ToSet(Rules)} \cup DevHeads \cup EverydayHeads \cup SafeHeads
Offered == HelpOffers \cup AgentOffers \cup AutopilotPlans

\* A form by itself, with something after it, with a table's name or "list" after it.
Lines ==
  WholeForms \cup Offered \cup {Append(f, "x") : f \in WholeForms \cup HeadForms} \cup
  {Append(f, w) : f \in HeadForms, w \in {"x.csv", "list"}} \cup {<<"x">>, <<"x","list">>, <<"x","x.csv">>}

VARIABLES
  speaker,  \* who the commands are for: the owner, or a personal account
  turnOf,   \* whose words come next, or what is done with the last: it is heard, or answered
  via,      \* where the last came from: it was typed, planned by the router, or is autopilot's step
  line,     \* the last
  taker,    \* the branch that took it, NoRule if none
  reply     \* why none did

formvars == <<speaker, turnOf, via, line, taker, reply>>

NoRule == Rule("", "answer", {}, {})

FormsTypeOK ==
  /\ speaker \in {"owner", "personal"} /\ turnOf \in {"user", "router", "autopilot", "heard", "answered"}
  /\ via \in {"", "typed", "planned", "autopilot"} /\ line \in Lines \cup {<<>>}
  /\ taker = NoRule \/ taker \in ToSet(Rules)
  /\ reply \in {"", "refused", "unavailable", "blocked", "unrecognised"}

FormsInit ==
  /\ speaker = "owner" /\ turnOf = "user" /\ via = "" /\ line = <<>>
  /\ taker = NoRule /\ reply = ""

Hears(t, from, who) ==
  /\ line' = t /\ via' = from /\ speaker' = who /\ turnOf' = "heard"
  /\ UNCHANGED <<taker, reply>>

\* A request of whoever is signed in.
Says == turnOf = "user" /\ \E t \in Lines, who \in {"owner", "personal"} : Hears(t, "typed", who)
\* A model's, or the heuristic's, command, or a chat answer.
Plans == turnOf = "router" /\ \E t \in Lines : Hears(t, "planned", speaker)
\* A plan for the goal, or the steps of "autopilot workflow".
AutopilotSteps == turnOf = "autopilot" /\ \E t \in Lines : Hears(t, "autopilot", speaker)

GoesNoFurther ==
  /\ turnOf \in {"router", "autopilot"} /\ turnOf' = "user"
  /\ UNCHANGED <<speaker, via, line, taker, reply>>

Answer(r, why) ==
  /\ taker' = r /\ reply' = why /\ turnOf' = "answered"
  /\ UNCHANGED <<speaker, via, line>>
ToRouter ==
  /\ turnOf' = "router" /\ line' = <<>> /\ via' = ""
  /\ UNCHANGED <<speaker, taker, reply>>

ForPersonal == speaker = "personal"
Safe(t) == Within(t, SafeWhole, SafeHeads)
MaySoundLikeProse(t) == Len(t) > 1 /\ t[1] \in ProseProne
Refused(t) == ForPersonal /\ Within(t, DevWhole, DevHeads)

\* everyday_form, or a branch chosen by a pattern.
Everyday(t) ==
  \/ Within(t, EverydayWhole, EverydayHeads) \/ BareList(t)
  \/ Within(t, Verb("reminder", {"delete", "cancel", "remove"}), Verb("reminder", {"delete", "cancel", "remove"}))
  \/ t \in Each({"(which list)", "(how long left)", "(fact)", "(list edit)", "(date)", "(draw)"})

Blocked == turnOf = "heard" /\ via = "autopilot" /\ ~Safe(line) /\ Answer(NoRule, "blocked")

\* To the dispatchers, unless it is autopilot's and not safe, or the user's and reads as prose.
Reaches == turnOf = "heard" /\ (via = "autopilot" => Safe(line))

ReadAsProse == Reaches /\ via = "typed" /\ MaySoundLikeProse(line) /\ ToRouter

Refuse == Reaches /\ Refused(line) /\ Answer(NoRule, "refused")

NotEveryday ==
  /\ Reaches /\ ForPersonal /\ ~Refused(line) /\ ~Everyday(line)
  /\ IF via = "typed" THEN ToRouter ELSE Answer(NoRule, "unavailable")

MayHave(t) == ~Refused(t) /\ (ForPersonal => Everyday(t))

Dispatched == Reaches /\ MayHave(line) /\ \E r \in Takers(line) : Answer(r, "")

Unclaimed ==
  /\ Reaches /\ MayHave(line) /\ NoneTakes(line)
  /\ IF via = "typed" THEN ToRouter ELSE Answer(NoRule, "unrecognised")

\* The answer is given; autopilot takes its next step.
Done ==
  /\ turnOf = "answered"
  /\ turnOf' = IF via = "autopilot" \/ taker.tool \in {"autopilot", "autopilot workflow"}
               THEN "autopilot" ELSE "user"
  /\ line' = <<>> /\ via' = "" /\ taker' = NoRule /\ reply' = ""
  /\ UNCHANGED speaker

FormsNext ==
  \/ Says \/ Plans \/ AutopilotSteps \/ GoesNoFurther \/ Done
  \/ Blocked \/ ReadAsProse \/ Refuse \/ NotEveryday \/ Dispatched \/ Unclaimed

FormsSpec == FormsInit /\ [][FormsNext]_formvars
-----------------------------------------------------------------------------
Took == taker # NoRule

\* How much of a text a branch's form says: all of it, or the beginning.
Reach(r, t) ==
  IF Within(t, {}, r.heads) /\ r.tool \notin {"forecast", "diagnostics", "breakdown", "bare list"}
  THEN CHOOSE n \in 1..Len(t) : SubSeq(t, 1, n) \in r.heads /\ \A h \in Beginnings(t) \cap r.heads : Len(h) <= n
  ELSE Len(t)

\* A form that another form begins is not swallowed by it: of the branches that would
\* take a text the one that says most of it does (tests/test_command_dispatch.py).
NoFormIsSwallowed ==
  Took => \A i \in Claiming(line) : MayDecline(Rules[i]) \/ Reach(Rules[i], line) <= Reach(taker, line)

\* What a personal account has run tells or keeps what is anyone's, whichever branch a
\* text marked everyday falls to (access.py:8-12), unless the text names a table.
PersonalRunsTheEveryday ==
  Took /\ ForPersonal => taker.does \in {"answer", "keeps"} \/ (taker.tool = "breakdown" /\ NamesTable(line))

\* What is marked everyday is not refused by a developer's form, and has a tool.
EverydayIsAvailable ==
  ForPersonal /\ line \in EverydayWhole \cup {Append(h, "x") : h \in EverydayHeads} =>
    reply = "" \/ (reply = "unrecognised" /\ Claiming(line) # {})

\* Autopilot, unattended, only looks (autopilot.py:12-31), or indexes what it looked at,
\* and does every step it plans.
AutopilotOnlyLooks ==
  via = "autopilot" =>
    /\ Took => taker.does \in {"answer", "owner", "indexes"}
    /\ line \in AutopilotPlans => reply = ""

\* What help and the agent's prompt offer is a command some tool takes, or looks at.
OffersAreTaken == ~ForPersonal /\ line \in Offered /\ reply = "unrecognised" => Claiming(line) # {}

FormsAgree ==
  NoFormIsSwallowed /\ PersonalRunsTheEveryday /\ EverydayIsAvailable /\ AutopilotOnlyLooks /\ OffersAreTaken
=============================================================================
