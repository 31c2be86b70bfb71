-------------------------- MODULE ConfigurationFile --------------------------
(***************************************************************************)
(* The configuration of the code generator (config.py) and its YAML file    *)
(* (export_config() and import_config()).                                   *)
(*                                                                         *)
(* An option has its default value or another one: a configuration is the   *)
(* set of the options that differ.  A key of the file is the name of its    *)
(* option in another spelling, and is written as the option here.           *)
(***************************************************************************)
EXTENDS Naturals, Sequences

ScheduleOptions == {"displayFIFOSizes", "memoryOptimization", "sinkPriority",
  "dumpSchedule", "heapAllocation", "callback", "disableDuplicateOptimization"}

GraphvizOptions == {"horizontal", "displayFIFOBuf"}

CodeOptions == {"debugLimit", "dumpFIFO", "schedName", "cOptionalInitArgs",
  "cOptionalExecutionArgs", "cOptionalFreeArgs", "disableSelectorInit",
  "pyOptionalArgs", "prefix", "pathToCGModule", "switchCase", "eventRecorder"}

FileNameOptions == {"appNodesCName", "appNodesPythonName", "appConfigCName",
  "appConfigPythonName", "postCustomCName", "genericStreamNodeName",
  "genericNodeCName", "eventQueueCName", "cgEnumCName", "cnodeAPI",
  "cnodeTemplate", "cNodeStruct", "cNodeStructCreation", "schedulerCFileName",
  "schedulerPythonFileName"}

ModeOptions == {"CAPI", "CMSISDSP", "asynchronous", "fullyAsynchronous",
  "FIFOIncrease", "asyncDefaultSkip", "bufferAllocation", "nodeIdentification",
  "memStrategy", "optimalColoringMaxVisits", "selectorsID"}

Configuration == ScheduleOptions \cup GraphvizOptions \cup CodeOptions
                   \cup FileNameOptions \cup ModeOptions

Sections == {"schedule", "code", "c", "python", "graphviz"}

\* The options that export_config() compares with their defaults, by section
Exported ==
  [schedule |-> {"memoryOptimization", "sinkPriority", "displayFIFOSizes",
     "dumpSchedule", "memStrategy", "bufferAllocation",
     "disableDuplicateOptimization", "callback", "heapAllocation"},
   code |-> {"debugLimit", "dumpFIFO", "schedName", "prefix"},
   c |-> {"cOptionalInitArgs", "cOptionalExecutionArgs", "cOptionalFreeArgs",
     "switchCase", "eventRecorder", "appConfigCName", "postCustomCName",
     "genericNodeCName", "appNodesCName", "schedulerCFileName", "CAPI",
     "CMSISDSP", "asynchronous", "FIFOIncrease", "asyncDefaultSkip",
     "nodeIdentification", "fullyAsynchronous"},
   python |-> {"pyOptionalArgs", "appConfigPythonName", "appNodesPythonName",
     "schedulerPythonFileName"},
   graphviz |-> {"horizontal", "displayFIFOBuf"}]

\* heap-allocation looked for where Documentation/YAML.md lists it
Looked_HeapWithC ==
  [schedule |-> {"memoryOptimization", "sinkPriority", "displayFIFOSizes",
     "dumpSchedule", "memStrategy", "bufferAllocation", "callback",
     "disableDuplicateOptimization"},
   code |-> {"debugLimit", "dumpFIFO", "schedName", "prefix"},
   c |-> {"heapAllocation", "cOptionalInitArgs", "cOptionalExecutionArgs", "cOptionalFreeArgs",
     "switchCase", "callback", "eventRecorder", "appConfigCName",
     "postCustomCName", "genericNodeCName", "appNodesCName",
     "schedulerCFileName", "CAPI", "CMSISDSP", "asynchronous", "FIFOIncrease",
     "asyncDefaultSkip", "nodeIdentification", "fullyAsynchronous"},
   python |-> {"pyOptionalArgs", "appConfigPythonName", "appNodesPythonName",
     "schedulerPythonFileName"},
   graphviz |-> {"horizontal", "displayFIFOBuf"}]

\* The options that import_config() looks for in each section
Looked ==
  [schedule |-> {"memoryOptimization", "sinkPriority", "displayFIFOSizes",
     "dumpSchedule", "memStrategy", "bufferAllocation", "callback",
     "heapAllocation", "disableDuplicateOptimization"},
   code |-> {"debugLimit", "dumpFIFO", "schedName", "prefix"},
   c |-> {"cOptionalInitArgs", "cOptionalExecutionArgs", "cOptionalFreeArgs",
     "switchCase", "callback", "eventRecorder", "appConfigCName",
     "postCustomCName", "genericNodeCName", "appNodesCName",
     "schedulerCFileName", "CAPI", "CMSISDSP", "asynchronous", "FIFOIncrease",
     "asyncDefaultSkip", "nodeIdentification", "fullyAsynchronous"},
   python |-> {"pyOptionalArgs", "appConfigPythonName", "appNodesPythonName",
     "schedulerPythonFileName"},
   graphviz |-> {"horizontal", "displayFIFOBuf"}]

\* An empty section is not written; no section is written but for its options
ExportedConfig(c) == [s \in {x \in Sections : Exported[x] \cap c # {}} |->
                        Exported[s] \cap c]

ImportedConfig(file) ==
  UNION {file[s] \cap Looked[s] : s \in DOMAIN file}

\* The options that no section of the file holds
OutsideTheFile == {"disableSelectorInit", "pathToCGModule", "cgEnumCName",
  "genericStreamNodeName", "eventQueueCName", "cnodeAPI", "cnodeTemplate",
  "cNodeStruct", "cNodeStructCreation", "optimalColoringMaxVisits",
  "selectorsID"}
=============================================================================
