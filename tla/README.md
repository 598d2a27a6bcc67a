# stub
The system's parts. The system's parts. The system's parts. The system's parts. The system's parts. The system's parts. The system's parts. The system's parts. The system's parts. The system's parts. The system's parts. The system's parts. The system's parts. The system's parts. The system's parts. The system's parts. The system's parts. The system's parts. The system's parts. The system's parts. The system's parts. The system's parts. The system's parts. The system's parts. The system's parts. The system's parts. The system's parts. The system's parts. The system's parts. The system's parts. The system's parts. The system's parts. The system's parts. The system's parts. The system's parts. The system's parts. The system's parts. The system's parts. The system's parts. The system's parts. The system's parts. The system's parts. The system's parts. The system's parts. The system's parts. The system's parts. The system's parts. The system's parts. The system's parts. The system's parts. The system's parts. The system's parts. The system's parts. The system's parts. The system's parts. The system's parts. The system's parts. The system's parts. The system's parts. The system's parts. The system's parts. The system's parts. The system's parts. The system's parts. The system's parts. The system's parts. The system's parts. The system's parts. The system's parts. The system's parts. The system's parts. The system's parts. The system's parts. The system's parts. The system's parts. The system's parts. The system's parts. The system's parts. The system's parts. The system's parts. 
