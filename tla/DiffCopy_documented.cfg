SPECIFICATION Spec
CONSTANTS
    alone = alone
    entries = entries
    context = context
    Dockerfile = Dockerfile
    dockerfile = dockerfile
    dockerignore = dockerignore
    r1 = r1
    r2 = r2
    None = None
    Streams = {alone, entries, context}
    Follows = {alone, entries}
    Files = {Dockerfile, dockerfile, dockerignore}
    Dockerfiles = {Dockerfile, dockerfile}
    Size <- MCSize
    Walk <- MCWalk
    Interleaves = FALSE
    Rules = {r1, r2}
    Changes <- MCChanges
    FirstRules = r1
    MaxOthers = 1
INVARIANTS TypeOK OnlyDockerfilesEdited DockerfileRewritten
PROPERTIES ImplementsEditingPipe
CHECK_DEADLOCK FALSE
