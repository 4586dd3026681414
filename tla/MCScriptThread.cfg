SPECIFICATION ScriptFairSpec
INVARIANTS
    NoDanglingLua
    EndedScriptHangsUp
PROPERTIES
    StoppedScriptEnds
    ImplementsScriptLife
